---------------------------- MODULE Spec2Model ----------------------------
(***************************************************************************)
(* Manual gradient-descent trainer of the simple linear regression         *)
(* notebook (learn_w_gradient_descent) together with the notebook cell     *)
(* that calls it.                                                          *)
(*                                                                         *)
(* Numbers.  The program computes in IEEE double precision.  The model     *)
(* keeps a number as a pair <<n, d>>: a normalised fraction n/d when       *)
(* d > 0, and the three special doubles when d = 0: <<1,0>> is +inf,       *)
(* <<-1,0>> is -inf and <<0,0>> is NaN.  Rounding is not modelled; the     *)
(* finite range is: a result whose magnitude exceeds FloatMax overflows    *)
(* to an infinity, and inf - inf, 0 * inf and 0/0 are NaN, as in numpy     *)
(* (which warns and goes on).                                              *)
(***************************************************************************)
EXTENDS Integers, Sequences, FiniteSets, TLC

(***************************************************************************)
(* Bounds of the model.                                                    *)
(***************************************************************************)
\* iterations of the training loop (range(5000) in the source)
NumIterations == 3
\* largest finite magnitude of a double in the model
FloatMax == 1000
\* training steps of the multiple regression (range(50000), nb_epoch=50000)
NumEpochs == 2

(***************************************************************************)
(* Program constants.                                                      *)
(***************************************************************************)
\* learning_rate = 0.1, kept as 1 / LearningRateDen
LearningRateDen == 10
\* np.random.randint(1, 10, size=2): coefficients start in InitLo .. InitHi-1
InitLo == 1
InitHi == 10
\* np.random.randint(2, 10, size=3): true coefficients and n_obs in 2 .. 9
TrueLo == 2
TrueHi == 10

\* np.random.randint(4, 10): n_obs of the multiple regression in 4 .. 9
MultLo == 4
MultHi == 10
\* coefficients of the multiple regression (size=4, Input(shape=(4,)))
NumBetas == 4

\* the trainer is run twice in one kernel (the notebook cell is re-run)
Runs == {1, 2}

(***************************************************************************)
(* Double-precision arithmetic.                                            *)
(***************************************************************************)
Abs(n) == IF n < 0 THEN -n ELSE n

Sign(n) == IF n < 0 THEN -1 ELSE IF n > 0 THEN 1 ELSE 0

RECURSIVE GCD(_, _)
GCD(a, b) == IF b = 0 THEN a ELSE GCD(b, a % b)

NaN == <<0, 0>>

PosInf == <<1, 0>>

NegInf == <<-1, 0>>

IsFinite(a) == a[2] > 0

\* the double nearest to n/d: the fraction in lowest terms, or an infinity
\* when it is out of range, or NaN for 0/0
Norm(n, d) ==
    IF d = 0 THEN <<Sign(n), 0>>
    ELSE IF Abs(n) > FloatMax * d THEN <<Sign(n), 0>>
    ELSE LET g == GCD(Abs(n), d) IN <<n \div g, d \div g>>

FromInt(k) == Norm(k, 1)

FNeg(a) == <<-a[1], a[2]>>

FAdd(a, b) ==
    IF a[2] = 0 /\ b[2] = 0 THEN (IF a = b THEN a ELSE NaN)
    ELSE IF a[2] = 0 THEN a
    ELSE IF b[2] = 0 THEN b
    ELSE LET g == GCD(a[2], b[2])
             l == (a[2] \div g) * b[2]
         IN  Norm(a[1] * (l \div a[2]) + b[1] * (l \div b[2]), l)

FSub(a, b) == FAdd(a, FNeg(b))

FMul(a, b) == Norm(a[1] * b[1], a[2] * b[2])

\* a / n for a count n >= 0 (0.0 / 0 is NaN)
FDivInt(a, n) == Norm(a[1], a[2] * n)

FAbs(a) == <<Abs(a[1]), a[2]>>

\* a < b on finite doubles
FLess(a, b) == a[1] * b[2] < b[1] * a[2]

learning_rate == Norm(1, LearningRateDen)

(***************************************************************************)
(* numpy arrays (one-dimensional, as sequences of doubles).                *)
(***************************************************************************)
\* shapes (n,) and (m,) broadcast when equal or when one of them is 1
Broadcastable(n, m) == n = m \/ n = 1 \/ m = 1

BroadcastLen(n, m) == IF n = m THEN n ELSE IF n = 1 THEN m ELSE n

\* element i of array a stretched to a longer shape
Elem(a, i) == IF Len(a) = 1 THEN a[1] ELSE a[i]

\* scalar + scalar * array
ScalarAffine(b0, b1, a) == [i \in 1..Len(a) |-> FAdd(b0, FMul(b1, a[i]))]

ArrSub(a, b) ==
    [i \in 1..BroadcastLen(Len(a), Len(b)) |-> FSub(Elem(a, i), Elem(b, i))]

ArrMul(a, b) ==
    [i \in 1..BroadcastLen(Len(a), Len(b)) |-> FMul(Elem(a, i), Elem(b, i))]

ArrNeg(a) == [i \in 1..Len(a) |-> FNeg(a[i])]

RECURSIVE ArrSum(_)
ArrSum(a) == IF Len(a) = 0 THEN FromInt(0)
             ELSE FAdd(ArrSum(SubSeq(a, 1, Len(a) - 1)), a[Len(a)])

\* ndarray.mean(): the sum divided by the number of elements
ArrMean(a) == FDivInt(ArrSum(a), Len(a))

IntArr(s) == [i \in 1..Len(s) |-> FromInt(s[i])]

(***************************************************************************)
(* Inputs of the model.                                                    *)
(***************************************************************************)
\* values np.random.randint(1, 10) returns for the initial coefficients
InitVals == {2, 3} \cap (InitLo..(InitHi - 1))

\* values np.random.randint(2, 10) returns for the true coefficients
TrueVals == {2, 3} \cap (TrueLo..(TrueHi - 1))

\* feature vectors the generator draws
GenXs == {<<1, 2>>, <<1, 1>>, <<0, 0>>}

\* gen_simple_linear with noise added to the first target
gen_simple_linearNoisy(t0, t1, x) ==
    [i \in 1..Len(x) |->
        FAdd(FAdd(FromInt(t0), FMul(FromInt(t1), FromInt(x[i]))),
             IF i = 1 THEN FromInt(1) ELSE FromInt(0))]

\* gen_simple_linear: noiseless targets ys_i = true_beta_0 + true_beta_1 * xs_i
gen_simple_linear(t0, t1, x) == ScalarAffine(FromInt(t0), FromInt(t1), IntArr(x))

\* argument pairs <<xs, ys>> of calls that do not come from the generator:
\* no observation, lengths that differ, a single target for two inputs, and
\* data on which learning rate 0.1 is unstable
DirectArgs ==
    { <<IntArr(<<>>), IntArr(<<>>)>>,
      <<IntArr(<<1, 2, 3>>), IntArr(<<5, 7>>)>>,
      <<IntArr(<<1, 2>>), IntArr(<<5>>)>>,
      <<IntArr(<<60, 60>>), IntArr(<<182, 182>>)>>,
      <<IntArr(<<0, 0>>), IntArr(<<900, 900>>)>> }

(***************************************************************************)
(* State.                                                                  *)
(***************************************************************************)
VARIABLES
    pc,         \* pc[r]: position of run r
    true_beta,  \* caller's true_beta_0, true_beta_1 of run r (<<>> if none)
    xs, ys,     \* arguments of run r
    beta_0, beta_1,          \* locals of learn_w_gradient_descent
    it,                      \* iterations of the for loop started
    yhats, es, d_beta_0, d_beta_1,
    ret,        \* return value of run r
    exc,        \* exception that ended run r
    stdout,     \* lines printed so far (shared by all runs)
    rng,        \* number of values drawn from the module-level np.random
                \* since it was seeded
    hist,       \* history: coefficient pairs of run r at each loop head
    nupd,       \* history: coefficient assignments of run r, <<to beta_0, to beta_1>>
    n_obs,      \* caller's n_obs of run r (0 if none)
    tape,       \* values the seeded np.random stream has returned, by position
    start,      \* history: position of the stream at which run r started
    \* the multiple regression cell (tensorflow or keras notebook)
    m_pc, m_fw, m_true, m_n_obs, m_x, m_y, m_betas, m_step,
    \* the theano notebook
    th_pc, th_true, th_xs, th_ys, th_beta, th_out, th_calls, th_hist,
    \* the tensorflow notebook
    tf_pc, tf_true, tf_x, tf_y, tf_initial, tf_var, tf_fetched, tf_names,
    tf_step, tf_new, tf_hist,
    \* the keras notebook
    k_pc, k_true, k_xs, k_ys, k_weights, k_epoch, k_hist,
    \* two functions returned by two calls of get_theano_graph
    g_data,     \* the observations <<xs, ys>> passed to the functions
    g_beta,     \* the shared variables <<beta_0, beta_1>> of function g
    g_init,     \* history: the values they were created with
    g_calls     \* history: number of calls of function g

multiple_vars == <<m_pc, m_fw, m_true, m_n_obs, m_x, m_y, m_betas, m_step>>

theano_vars == <<th_pc, th_true, th_xs, th_ys, th_beta, th_out, th_calls, th_hist>>

tf_vars == <<tf_pc, tf_true, tf_x, tf_y, tf_initial, tf_var, tf_fetched, tf_names,
             tf_step, tf_new, tf_hist>>

\* state of the notebooks other than the numpy one
keras_vars == <<k_pc, k_true, k_xs, k_ys, k_weights, k_epoch, k_hist>>

graphs_vars == <<g_data, g_beta, g_init, g_calls>>

others == <<multiple_vars, theano_vars, tf_vars, keras_vars, graphs_vars>>

vars == <<pc, true_beta, xs, ys, beta_0, beta_1, it, yhats, es, d_beta_0,
          d_beta_1, ret, exc, stdout, rng, hist, nupd, n_obs, tape, start,
          multiple_vars, theano_vars, tf_vars, keras_vars, graphs_vars>>

locals == <<beta_0, beta_1, it, yhats, es, d_beta_0, d_beta_1>>

\* state of the numpy notebook, the kernel's stdout and np.random apart
numpy_vars == <<pc, true_beta, xs, ys, locals, ret, exc, hist, nupd, n_obs, start>>

Unset == <<>>

\* return values: nothing returned yet, and Python's None
NotReturned == <<>>

None == <<"None">>

\* no exception has been raised
NoExc == ""

Terminal == {"done", "error"}

Init ==
    /\ pc = [r \in Runs |-> "idle"]
    /\ true_beta = [r \in Runs |-> Unset]
    /\ xs = [r \in Runs |-> Unset]
    /\ ys = [r \in Runs |-> Unset]
    /\ beta_0 = [r \in Runs |-> Unset]
    /\ beta_1 = [r \in Runs |-> Unset]
    /\ it = [r \in Runs |-> 0]
    /\ yhats = [r \in Runs |-> Unset]
    /\ es = [r \in Runs |-> Unset]
    /\ d_beta_0 = [r \in Runs |-> Unset]
    /\ d_beta_1 = [r \in Runs |-> Unset]
    /\ ret = [r \in Runs |-> NotReturned]
    /\ exc = [r \in Runs |-> NoExc]
    /\ stdout = <<>>
    /\ rng = 0
    /\ hist = [r \in Runs |-> <<>>]
    /\ nupd = [r \in Runs |-> <<0, 0>>]
    /\ n_obs = [r \in Runs |-> 0]
    /\ tape = <<>>
    /\ start = [r \in Runs |-> 0]
    /\ m_pc = "idle" /\ m_fw = "" /\ m_true = Unset /\ m_n_obs = 0
    /\ m_x = Unset /\ m_y = Unset /\ m_betas = Unset /\ m_step = 0
    /\ th_pc = "idle" /\ th_true = Unset /\ th_xs = Unset /\ th_ys = Unset
    /\ th_beta = Unset /\ th_out = Unset /\ th_calls = 0 /\ th_hist = <<>>
    /\ tf_pc = "idle" /\ tf_true = Unset /\ tf_x = Unset /\ tf_y = Unset
    /\ tf_initial = Unset /\ tf_var = Unset /\ tf_fetched = Unset
    /\ tf_names = "Variable" /\ tf_step = 0 /\ tf_new = Unset /\ tf_hist = <<>>
    /\ k_pc = "idle" /\ k_true = Unset /\ k_xs = Unset /\ k_ys = Unset
    /\ k_weights = Unset /\ k_epoch = 0 /\ k_hist = <<>>
    /\ g_data = Unset
    /\ g_beta = [g \in 1..2 |-> Unset]
    /\ g_init = [g \in 1..2 |-> Unset]
    /\ g_calls = [g \in 1..2 |-> 0]

\* np.random returns vals next: a position of the stream that was already
\* drawn since the same seed was set returns the same value again
Drawn(vals) ==
    \A j \in 1..Len(vals) : rng + j <= Len(tape) => vals[j] = tape[rng + j]

\* the stream as it is known once vals are drawn
Extend(vals) ==
    IF rng + Len(vals) <= Len(tape) THEN tape ELSE SubSeq(tape, 1, rng) \o vals

\* runs follow one another: a cell starts when the previous one has ended
MayStart(r) == pc[r] = "idle" /\ \A q \in Runs : q < r => pc[q] \in Terminal

(***************************************************************************)
(* The calling cell: draws the true coefficients and n_obs, prints the     *)
(* true coefficients, generates the data and calls the trainer.            *)
(***************************************************************************)
CallerCell(r) ==
    /\ MayStart(r)
    /\ \E t0 \in TrueVals, t1 \in TrueVals, n \in TrueLo..(TrueHi - 1), x \in GenXs :
          /\ Len(x) = n
          /\ Drawn(<<t0, t1, n>> \o x)
          /\ tape' = Extend(<<t0, t1, n>> \o x)
          /\ true_beta' = [true_beta EXCEPT ![r] = <<t0, t1>>]
          /\ n_obs' = [n_obs EXCEPT ![r] = n]
          /\ stdout' = stdout \o << <<"Actual beta_0", FromInt(t0)>>,
                                    <<"Actual beta_1", FromInt(t1)>> >>
          /\ xs' = [xs EXCEPT ![r] = IntArr(x)]
          /\ ys' = [ys EXCEPT ![r] = gen_simple_linear(t0, t1, x)]
          /\ rng' = rng + 3 + n
    /\ start' = [start EXCEPT ![r] = rng]
    /\ pc' = [pc EXCEPT ![r] = "init"]
    /\ UNCHANGED <<locals, ret, exc, hist, nupd>>
    /\ UNCHANGED others

\* learn_w_gradient_descent(xs, ys) called with arrays of the caller's own
DirectCall(r) ==
    /\ MayStart(r)
    /\ \E a \in DirectArgs :
          /\ xs' = [xs EXCEPT ![r] = a[1]]
          /\ ys' = [ys EXCEPT ![r] = a[2]]
    /\ start' = [start EXCEPT ![r] = rng]
    /\ pc' = [pc EXCEPT ![r] = "init"]
    /\ UNCHANGED <<true_beta, locals, ret, exc, stdout, rng, hist, nupd, n_obs, tape>>
    /\ UNCHANGED others

(***************************************************************************)
(* learn_w_gradient_descent.                                               *)
(***************************************************************************)
\* InitCoefficients drawing from a generator of its own that the seed of
\* np.random does not govern (np.random.RandomState().randint(1, 10, size=2))
InitCoefficientsUnseeded(r) ==
    /\ pc[r] = "init"
    /\ \E b0 \in InitVals, b1 \in InitVals :
          /\ beta_0' = [beta_0 EXCEPT ![r] = FromInt(b0)]
          /\ beta_1' = [beta_1 EXCEPT ![r] = FromInt(b1)]
          /\ stdout' = stdout \o << <<"Initial gradient descent beta_0", FromInt(b0)>>,
                                    <<"Initial gradient descent beta_1", FromInt(b1)>> >>
          /\ hist' = [hist EXCEPT ![r] = << <<FromInt(b0), FromInt(b1)>> >>]
    /\ pc' = [pc EXCEPT ![r] = "loop"]
    /\ UNCHANGED <<true_beta, xs, ys, it, yhats, es, d_beta_0, d_beta_1, ret, exc, nupd,
                   n_obs, start, rng, tape>>
    /\ UNCHANGED others

\* Step 1: draw the two coefficients and print them
InitCoefficients(r) ==
    /\ pc[r] = "init"
    /\ \E b0 \in InitVals, b1 \in InitVals :
          /\ Drawn(<<b0, b1>>)
          /\ tape' = Extend(<<b0, b1>>)
          /\ beta_0' = [beta_0 EXCEPT ![r] = FromInt(b0)]
          /\ beta_1' = [beta_1 EXCEPT ![r] = FromInt(b1)]
          /\ stdout' = stdout \o << <<"Initial gradient descent beta_0", FromInt(b0)>>,
                                    <<"Initial gradient descent beta_1", FromInt(b1)>> >>
          /\ hist' = [hist EXCEPT ![r] = << <<FromInt(b0), FromInt(b1)>> >>]
    /\ rng' = rng + 2
    /\ pc' = [pc EXCEPT ![r] = "loop"]
    /\ UNCHANGED <<true_beta, xs, ys, it, yhats, es, d_beta_0, d_beta_1, ret, exc, nupd,
                   n_obs, start>>
    /\ UNCHANGED others

\* ForwardBackward with the residuals computed in place in the caller's array
\* (es = ys; es -= yhats)
ForwardBackwardInPlace(r) ==
    /\ pc[r] = "loop"
    /\ it[r] < NumIterations
    /\ it' = [it EXCEPT ![r] = @ + 1]
    /\ LET yh == ScalarAffine(beta_0[r], beta_1[r], xs[r])
       IN  /\ yhats' = [yhats EXCEPT ![r] = yh]
           /\ IF Broadcastable(Len(ys[r]), Len(yh))
              THEN LET e == ArrSub(ys[r], yh)
                   IN  /\ es' = [es EXCEPT ![r] = e]
                       /\ ys' = [ys EXCEPT ![r] = e]
                       /\ d_beta_0' = [d_beta_0 EXCEPT ![r] = ArrNeg(e)]
                       /\ d_beta_1' = [d_beta_1 EXCEPT ![r] = ArrMul(ArrNeg(e), xs[r])]
                       /\ pc' = [pc EXCEPT ![r] = "upd0"]
                       /\ UNCHANGED exc
              ELSE /\ pc' = [pc EXCEPT ![r] = "error"]
                   /\ exc' = [exc EXCEPT ![r] = "ValueError"]
                   /\ UNCHANGED <<es, ys, d_beta_0, d_beta_1>>
    /\ UNCHANGED <<true_beta, xs, beta_0, beta_1, ret, stdout, rng, hist, nupd>>
    /\ UNCHANGED <<n_obs, tape, start>>
    /\ UNCHANGED others

\* ForwardBackward with the draw of the coefficients inside the loop: every
\* iteration starts from freshly drawn coefficients
ForwardBackwardRedrawing(r) ==
    /\ pc[r] = "loop"
    /\ it[r] < NumIterations
    /\ it' = [it EXCEPT ![r] = @ + 1]
    /\ \E b0 \in InitVals, b1 \in InitVals :
          /\ Drawn(<<b0, b1>>)
          /\ tape' = Extend(<<b0, b1>>)
          /\ rng' = rng + 2
          /\ beta_0' = [beta_0 EXCEPT ![r] = FromInt(b0)]
          /\ beta_1' = [beta_1 EXCEPT ![r] = FromInt(b1)]
          /\ LET yh == ScalarAffine(FromInt(b0), FromInt(b1), xs[r])
             IN  /\ yhats' = [yhats EXCEPT ![r] = yh]
                 /\ IF Broadcastable(Len(ys[r]), Len(yh))
                    THEN LET e == ArrSub(ys[r], yh)
                         IN  /\ es' = [es EXCEPT ![r] = e]
                             /\ d_beta_0' = [d_beta_0 EXCEPT ![r] = ArrNeg(e)]
                             /\ d_beta_1' = [d_beta_1 EXCEPT ![r] = ArrMul(ArrNeg(e), xs[r])]
                             /\ pc' = [pc EXCEPT ![r] = "upd0"]
                             /\ UNCHANGED exc
                    ELSE /\ pc' = [pc EXCEPT ![r] = "error"]
                         /\ exc' = [exc EXCEPT ![r] = "ValueError"]
                         /\ UNCHANGED <<es, d_beta_0, d_beta_1>>
    /\ UNCHANGED <<true_beta, xs, ys, ret, stdout, hist, nupd>>
    /\ UNCHANGED <<n_obs, start>>
    /\ UNCHANGED others

\* ForwardBackward reading the notebook's global true_beta_0 where the
\* local beta_0 is meant
ForwardBackwardPeeking(r) ==
    /\ pc[r] = "loop"
    /\ it[r] < NumIterations
    /\ it' = [it EXCEPT ![r] = @ + 1]
    /\ LET b0 == IF true_beta[r] = Unset THEN beta_0[r] ELSE FromInt(true_beta[r][1])
           yh == ScalarAffine(b0, beta_1[r], xs[r])
       IN  /\ yhats' = [yhats EXCEPT ![r] = yh]
           /\ IF Broadcastable(Len(ys[r]), Len(yh))
              THEN LET e == ArrSub(ys[r], yh)
                   IN  /\ es' = [es EXCEPT ![r] = e]
                       /\ d_beta_0' = [d_beta_0 EXCEPT ![r] = ArrNeg(e)]
                       /\ d_beta_1' = [d_beta_1 EXCEPT ![r] = ArrMul(ArrNeg(e), xs[r])]
                       /\ pc' = [pc EXCEPT ![r] = "upd0"]
                       /\ UNCHANGED exc
              ELSE /\ pc' = [pc EXCEPT ![r] = "error"]
                   /\ exc' = [exc EXCEPT ![r] = "ValueError"]
                   /\ UNCHANGED <<es, d_beta_0, d_beta_1>>
    /\ UNCHANGED <<true_beta, xs, ys, beta_0, beta_1, ret, stdout, rng, hist, nupd>>
    /\ UNCHANGED <<n_obs, tape, start>>
    /\ UNCHANGED others

\* ForwardBackward with an argument check: an empty xs is refused as well
ForwardBackwardValidating(r) ==
    /\ pc[r] = "loop"
    /\ it[r] < NumIterations
    /\ it' = [it EXCEPT ![r] = @ + 1]
    /\ LET yh == ScalarAffine(beta_0[r], beta_1[r], xs[r])
       IN  /\ yhats' = [yhats EXCEPT ![r] = yh]
           /\ IF Broadcastable(Len(ys[r]), Len(yh)) /\ Len(xs[r]) > 0
              THEN LET e == ArrSub(ys[r], yh)
                   IN  /\ es' = [es EXCEPT ![r] = e]
                       /\ d_beta_0' = [d_beta_0 EXCEPT ![r] = ArrNeg(e)]
                       /\ d_beta_1' = [d_beta_1 EXCEPT ![r] = ArrMul(ArrNeg(e), xs[r])]
                       /\ pc' = [pc EXCEPT ![r] = "upd0"]
                       /\ UNCHANGED exc
              ELSE /\ pc' = [pc EXCEPT ![r] = "error"]
                   /\ exc' = [exc EXCEPT ![r] = "ValueError"]
                   /\ UNCHANGED <<es, d_beta_0, d_beta_1>>
    /\ UNCHANGED <<true_beta, xs, ys, beta_0, beta_1, ret, stdout, rng, hist, nupd>>
    /\ UNCHANGED <<n_obs, tape, start>>
    /\ UNCHANGED others

\* ForwardBackward with the predictions yhats = beta_0 + beta_1, the feature
\* left out
ForwardBackwardNoFeature(r) ==
    /\ pc[r] = "loop"
    /\ it[r] < NumIterations
    /\ it' = [it EXCEPT ![r] = @ + 1]
    /\ LET yh == [i \in 1..Len(ys[r]) |-> FAdd(beta_0[r], beta_1[r])]
           e  == ArrSub(ys[r], yh)
       IN  /\ yhats' = [yhats EXCEPT ![r] = yh]
           /\ es' = [es EXCEPT ![r] = e]
           /\ d_beta_0' = [d_beta_0 EXCEPT ![r] = ArrNeg(e)]
           /\ d_beta_1' = [d_beta_1 EXCEPT ![r] = ArrMul(ArrNeg(e), xs[r])]
    /\ IF Broadcastable(Len(ys[r]), Len(xs[r]))
       THEN pc' = [pc EXCEPT ![r] = "upd0"] /\ UNCHANGED exc
       ELSE pc' = [pc EXCEPT ![r] = "error"] /\ exc' = [exc EXCEPT ![r] = "ValueError"]
    /\ UNCHANGED <<true_beta, xs, ys, beta_0, beta_1, ret, stdout, rng, hist, nupd>>
    /\ UNCHANGED <<n_obs, tape, start>>
    /\ UNCHANGED others

\* Steps 2A-2C up to the gradients: lines "yhats = ..." to "d_beta_1 = ..."
\* of one more iteration; "ys - yhats" raises when the shapes do not broadcast
ForwardBackward(r) ==
    /\ pc[r] = "loop"
    /\ it[r] < NumIterations
    /\ it' = [it EXCEPT ![r] = @ + 1]
    /\ LET yh == ScalarAffine(beta_0[r], beta_1[r], xs[r])
       IN  /\ yhats' = [yhats EXCEPT ![r] = yh]
           /\ IF Broadcastable(Len(ys[r]), Len(yh))
              THEN LET e == ArrSub(ys[r], yh)
                   IN  /\ es' = [es EXCEPT ![r] = e]
                       /\ d_beta_0' = [d_beta_0 EXCEPT ![r] = ArrNeg(e)]
                       /\ d_beta_1' = [d_beta_1 EXCEPT ![r] = ArrMul(ArrNeg(e), xs[r])]
                       /\ pc' = [pc EXCEPT ![r] = "upd0"]
                       /\ UNCHANGED exc
              ELSE /\ pc' = [pc EXCEPT ![r] = "error"]
                   /\ exc' = [exc EXCEPT ![r] = "ValueError"]
                   /\ UNCHANGED <<es, d_beta_0, d_beta_1>>
    /\ UNCHANGED <<true_beta, xs, ys, beta_0, beta_1, ret, stdout, rng, hist, nupd>>
    /\ UNCHANGED <<n_obs, tape, start>>
    /\ UNCHANGED others

\* UpdateBeta0 with floating-point errors raised (np.seterr(all="raise")): the
\* assignment is made and a result that is not finite then ends the run
UpdateBeta0Raising(r) ==
    /\ pc[r] = "upd0"
    /\ LET b0 == FSub(beta_0[r], FMul(learning_rate, ArrMean(d_beta_0[r])))
       IN  /\ beta_0' = [beta_0 EXCEPT ![r] = b0]
           /\ IF IsFinite(b0)
              THEN /\ pc' = [pc EXCEPT ![r] = "upd1"]
                   /\ UNCHANGED exc
              ELSE /\ pc' = [pc EXCEPT ![r] = "error"]
                   /\ exc' = [exc EXCEPT ![r] = "FloatingPointError"]
    /\ nupd' = [nupd EXCEPT ![r] = <<@[1] + 1, @[2]>>]
    /\ UNCHANGED <<true_beta, xs, ys, beta_1, it, yhats, es, d_beta_0, d_beta_1,
                   ret, stdout, rng, hist>>
    /\ UNCHANGED <<n_obs, tape, start>>
    /\ UNCHANGED others

\* UpdateBeta0 as an interleaved update would be: the predictions, errors and
\* gradients are computed again from the new beta_0 before beta_1 is updated
UpdateBeta0Interleaved(r) ==
    /\ pc[r] = "upd0"
    /\ LET b0 == FSub(beta_0[r], FMul(learning_rate, ArrMean(d_beta_0[r])))
           yh == ScalarAffine(b0, beta_1[r], xs[r])
           e  == ArrSub(ys[r], yh)
       IN  /\ beta_0' = [beta_0 EXCEPT ![r] = b0]
           /\ yhats' = [yhats EXCEPT ![r] = yh]
           /\ es' = [es EXCEPT ![r] = e]
           /\ d_beta_0' = [d_beta_0 EXCEPT ![r] = ArrNeg(e)]
           /\ d_beta_1' = [d_beta_1 EXCEPT ![r] = ArrMul(ArrNeg(e), xs[r])]
    /\ nupd' = [nupd EXCEPT ![r] = <<@[1] + 1, @[2]>>]
    /\ pc' = [pc EXCEPT ![r] = "upd1"]
    /\ UNCHANGED <<true_beta, xs, ys, beta_1, it, ret, exc, stdout, rng, hist>>
    /\ UNCHANGED <<n_obs, tape, start>>
    /\ UNCHANGED others

\* UpdateBeta0 with beta_0 declared global in the function: the assignment
\* writes the one module-level beta_0 that every invocation reads
UpdateBeta0Global(r) ==
    /\ pc[r] = "upd0"
    /\ LET b0 == FSub(beta_0[r], FMul(learning_rate, ArrMean(d_beta_0[r])))
       IN  beta_0' = [q \in Runs |-> IF beta_0[q] = Unset THEN Unset ELSE b0]
    /\ nupd' = [nupd EXCEPT ![r] = <<@[1] + 1, @[2]>>]
    /\ pc' = [pc EXCEPT ![r] = "upd1"]
    /\ UNCHANGED <<true_beta, xs, ys, beta_1, it, yhats, es, d_beta_0, d_beta_1,
                   ret, exc, stdout, rng, hist>>
    /\ UNCHANGED <<n_obs, tape, start>>
    /\ UNCHANGED others

\* beta_0 -= learning_rate * d_beta_0.mean()
UpdateBeta0(r) ==
    /\ pc[r] = "upd0"
    /\ beta_0' = [beta_0 EXCEPT ![r] = FSub(@, FMul(learning_rate, ArrMean(d_beta_0[r])))]
    /\ nupd' = [nupd EXCEPT ![r] = <<@[1] + 1, @[2]>>]
    /\ pc' = [pc EXCEPT ![r] = "upd1"]
    /\ UNCHANGED <<true_beta, xs, ys, beta_1, it, yhats, es, d_beta_0, d_beta_1,
                   ret, exc, stdout, rng, hist>>
    /\ UNCHANGED <<n_obs, tape, start>>
    /\ UNCHANGED others

\* UpdateBeta1 with a progress line printed in every iteration
UpdateBeta1Logging(r) ==
    /\ pc[r] = "upd1"
    /\ beta_1' = [beta_1 EXCEPT ![r] = FSub(@, FMul(learning_rate, ArrMean(d_beta_1[r])))]
    /\ stdout' = Append(stdout, <<"beta_1", beta_1'[r]>>)
    /\ nupd' = [nupd EXCEPT ![r] = <<@[1], @[2] + 1>>]
    /\ hist' = [hist EXCEPT ![r] = Append(@, <<beta_0[r], beta_1'[r]>>)]
    /\ pc' = [pc EXCEPT ![r] = "loop"]
    /\ UNCHANGED <<true_beta, xs, ys, beta_0, it, yhats, es, d_beta_0, d_beta_1,
                   ret, exc, rng>>
    /\ UNCHANGED <<n_obs, tape, start>>
    /\ UNCHANGED others

\* the double a clamp to the finite range would keep
Clamp(a) ==
    IF IsFinite(a) THEN a
    ELSE IF a = PosInf THEN FromInt(FloatMax)
    ELSE IF a = NegInf THEN FromInt(-FloatMax)
    ELSE FromInt(0)

\* UpdateBeta1 with the new coefficient clamped to the finite range
UpdateBeta1Clamped(r) ==
    /\ pc[r] = "upd1"
    /\ beta_1' = [beta_1 EXCEPT ![r] =
                     Clamp(FSub(@, FMul(learning_rate, ArrMean(d_beta_1[r]))))]
    /\ nupd' = [nupd EXCEPT ![r] = <<@[1], @[2] + 1>>]
    /\ hist' = [hist EXCEPT ![r] = Append(@, <<beta_0[r], beta_1'[r]>>)]
    /\ pc' = [pc EXCEPT ![r] = "loop"]
    /\ UNCHANGED <<true_beta, xs, ys, beta_0, it, yhats, es, d_beta_0, d_beta_1,
                   ret, exc, stdout, rng>>
    /\ UNCHANGED <<n_obs, tape, start>>
    /\ UNCHANGED others

\* UpdateBeta1 with the gradient added instead of subtracted
UpdateBeta1Ascent(r) ==
    /\ pc[r] = "upd1"
    /\ beta_1' = [beta_1 EXCEPT ![r] = FAdd(@, FMul(learning_rate, ArrMean(d_beta_1[r])))]
    /\ nupd' = [nupd EXCEPT ![r] = <<@[1], @[2] + 1>>]
    /\ hist' = [hist EXCEPT ![r] = Append(@, <<beta_0[r], beta_1'[r]>>)]
    /\ pc' = [pc EXCEPT ![r] = "loop"]
    /\ UNCHANGED <<true_beta, xs, ys, beta_0, it, yhats, es, d_beta_0, d_beta_1,
                   ret, exc, stdout, rng>>
    /\ UNCHANGED <<n_obs, tape, start>>
    /\ UNCHANGED others

\* UpdateBeta1 with the gradient of beta_0:
\* beta_1 -= learning_rate * d_beta_0.mean()
UpdateBeta1FromBeta0Gradient(r) ==
    /\ pc[r] = "upd1"
    /\ beta_1' = [beta_1 EXCEPT ![r] = FSub(@, FMul(learning_rate, ArrMean(d_beta_0[r])))]
    /\ nupd' = [nupd EXCEPT ![r] = <<@[1], @[2] + 1>>]
    /\ hist' = [hist EXCEPT ![r] = Append(@, <<beta_0[r], beta_1'[r]>>)]
    /\ pc' = [pc EXCEPT ![r] = "loop"]
    /\ UNCHANGED <<true_beta, xs, ys, beta_0, it, yhats, es, d_beta_0, d_beta_1,
                   ret, exc, stdout, rng>>
    /\ UNCHANGED <<n_obs, tape, start>>
    /\ UNCHANGED others

\* beta_1 -= learning_rate * d_beta_1.mean()
UpdateBeta1(r) ==
    /\ pc[r] = "upd1"
    /\ beta_1' = [beta_1 EXCEPT ![r] = FSub(@, FMul(learning_rate, ArrMean(d_beta_1[r])))]
    /\ nupd' = [nupd EXCEPT ![r] = <<@[1], @[2] + 1>>]
    /\ hist' = [hist EXCEPT ![r] = Append(@, <<beta_0[r], beta_1'[r]>>)]
    /\ pc' = [pc EXCEPT ![r] = "loop"]
    /\ UNCHANGED <<true_beta, xs, ys, beta_0, it, yhats, es, d_beta_0, d_beta_1,
                   ret, exc, stdout, rng>>
    /\ UNCHANGED <<n_obs, tape, start>>
    /\ UNCHANGED others

\* Finish reporting the coefficients held before the last iteration
FinishStale(r) ==
    /\ pc[r] = "loop"
    /\ it[r] = NumIterations
    /\ stdout' = stdout \o
          << <<"Final gradient descent beta_0", hist[r][Len(hist[r]) - 1][1]>>,
             <<"Final gradient descent beta_1", hist[r][Len(hist[r]) - 1][2]>> >>
    /\ ret' = [ret EXCEPT ![r] = None]
    /\ pc' = [pc EXCEPT ![r] = "done"]
    /\ UNCHANGED <<true_beta, xs, ys, locals, exc, rng, hist, nupd>>
    /\ UNCHANGED <<n_obs, tape, start>>
    /\ UNCHANGED others

\* Finish as a convergence test would make it: the loop is also left as soon
\* as an iteration has changed no coefficient
FinishOnConvergence(r) ==
    /\ pc[r] = "loop"
    /\ \/ it[r] = NumIterations
       \/ /\ Len(hist[r]) >= 2
          /\ hist[r][Len(hist[r])] = hist[r][Len(hist[r]) - 1]
    /\ stdout' = stdout \o << <<"Final gradient descent beta_0", beta_0[r]>>,
                              <<"Final gradient descent beta_1", beta_1[r]>> >>
    /\ ret' = [ret EXCEPT ![r] = None]
    /\ pc' = [pc EXCEPT ![r] = "done"]
    /\ UNCHANGED <<true_beta, xs, ys, locals, exc, rng, hist, nupd>>
    /\ UNCHANGED <<n_obs, tape, start>>
    /\ UNCHANGED others

\* the loop is exhausted: print the final coefficients and fall off the end
\* of the function, which returns None
Finish(r) ==
    /\ pc[r] = "loop"
    /\ it[r] = NumIterations
    /\ stdout' = stdout \o << <<"Final gradient descent beta_0", beta_0[r]>>,
                              <<"Final gradient descent beta_1", beta_1[r]>> >>
    /\ ret' = [ret EXCEPT ![r] = None]
    /\ pc' = [pc EXCEPT ![r] = "done"]
    /\ UNCHANGED <<true_beta, xs, ys, locals, exc, rng, hist, nupd>>
    /\ UNCHANGED <<n_obs, tape, start>>
    /\ UNCHANGED others

learn_w_gradient_descent(r) ==
    \/ InitCoefficients(r)
    \/ ForwardBackward(r)
    \/ UpdateBeta0(r)
    \/ UpdateBeta1(r)
    \/ Finish(r)

Next ==
    \E r \in Runs :
        \/ CallerCell(r)
        \/ DirectCall(r)
        \/ learn_w_gradient_descent(r)

Spec == Init /\ [][Next]_vars

(***************************************************************************)
(* The notebook cell run under a fixed seed: between two runs of the cell  *)
(* np.random may be seeded again with the seed it had at the start, which  *)
(* makes the stream start over.                                            *)
(***************************************************************************)
Reseed ==
    /\ \A r \in Runs : pc[r] \in Terminal \cup {"idle"}
    /\ rng > 0
    /\ rng' = 0
    /\ UNCHANGED <<pc, true_beta, xs, ys, locals, ret, exc, stdout, hist, nupd,
                   n_obs, tape, start>>
    /\ UNCHANGED others

NextSeeded ==
    \/ Reseed
    \/ \E r \in Runs : CallerCell(r) \/ learn_w_gradient_descent(r)

SpecSeeded == Init /\ [][NextSeeded]_vars

(***************************************************************************)
(* Two invocations of the trainer whose steps interleave (two threads of   *)
(* one interpreter calling learn_w_gradient_descent).  A call of           *)
(* np.random.randint and a print of one line are not interrupted.          *)
(***************************************************************************)
\* argument pairs <<xs, ys>> of the two invocations: two observations of
\* ys = 2 + 3 * xs, and lengths that differ
ThreadArgs ==
    { <<IntArr(<<1, 2>>), IntArr(<<5, 8>>)>>,
      <<IntArr(<<1, 2, 3>>), IntArr(<<5, 7>>)>> }

ThreadCall(r) ==
    /\ pc[r] = "idle"
    /\ \E a \in ThreadArgs :
          /\ xs' = [xs EXCEPT ![r] = a[1]]
          /\ ys' = [ys EXCEPT ![r] = a[2]]
    /\ start' = [start EXCEPT ![r] = rng]
    /\ pc' = [pc EXCEPT ![r] = "init"]
    /\ UNCHANGED <<true_beta, locals, ret, exc, stdout, rng, hist, nupd, n_obs, tape>>
    /\ UNCHANGED others

NextInterleaved ==
    \E r \in Runs : ThreadCall(r) \/ learn_w_gradient_descent(r)

SpecInterleaved == Init /\ [][NextInterleaved]_vars

(***************************************************************************)
(* The multiple regression cells (tensorflow and keras notebooks): four    *)
(* coefficients, the first one the intercept, fitted to n_obs observations *)
(* of three features.                                                      *)
(***************************************************************************)
Frameworks == {"tensorflow", "keras"}

\* values np.random.randint(4, 10) returns for n_obs
MultNObsValsFromThree == {3, 4, 5}

MultNObsVals == {4, 5} \cap (MultLo..(MultHi - 1))

\* feature matrices the generator draws, one row of three features per
\* observation
GenFeatures ==
    { << <<1, 0, 0>>, <<0, 1, 0>>, <<0, 0, 1>> >>,
      << <<1, 0, 0>>, <<0, 1, 0>>, <<0, 0, 1>>, <<0, 0, 0>> >>,
      << <<1, 0, 0>>, <<0, 1, 0>>, <<0, 0, 1>>, <<0, 0, 0>>, <<1, 1, 1>> >> }

RECURSIVE Flatten(_)
Flatten(m) == IF m = <<>> THEN <<>> ELSE Head(m) \o Flatten(Tail(m))

\* dot product of two vectors, matrix times vector, column j of a matrix
Dot(a, b) == ArrSum(ArrMul(a, b))

MatVec(X, b) == [i \in 1..Len(X) |-> Dot(X[i], b)]

Column(X, j) == [i \in 1..Len(X) |-> X[i][j]]

\* gen_multiple_linear: the inputs are the features behind a column of ones,
\* the targets are noiseless, ys_i = sum of true_betas[j] * xs[i][j]
MultipleInputs(F) == [i \in 1..Len(F) |-> IntArr(<<1>> \o F[i])]

gen_multiple_linear(t, F) == MatVec(MultipleInputs(F), IntArr(t))

\* initial coefficients: np.random.random(size=(4, 1)) in tensorflow, the
\* initializer of the Dense layer in keras (not drawn from np.random here)
MultipleInitial(f) ==
    IF f = "tensorflow"
    THEN { << Norm(1, 2), Norm(1, 2), Norm(1, 2), Norm(1, 2) >>,
           << Norm(0, 1), Norm(1, 4), Norm(1, 2), Norm(3, 4) >> }
    ELSE { << Norm(-1, 2), Norm(1, 4), Norm(0, 1), Norm(1, 2) >> }

\* factor of the gradient: the cost is mean(0.5 * es^2) in tensorflow and
\* mean_squared_error, mean(es^2), in keras
GradScale(f) == IF f = "tensorflow" THEN FromInt(1) ELSE FromInt(2)

\* report lines, one per coefficient
Report(label, b) == [j \in 1..Len(b) |-> <<label, j - 1, b[j]>>]

\* the cell up to the training loop: draw the true coefficients and n_obs,
\* print the true coefficients, build the graph or model, generate the data
\* and print the initial coefficients
MultipleCallerCell(f) ==
    /\ m_pc = "idle"
    /\ \E t \in [1..NumBetas -> TrueVals], n \in MultNObsVals, F \in GenFeatures,
          b \in MultipleInitial(f) :
          /\ Len(F) = n
          /\ LET drawn == t \o <<n>> \o (IF f = "tensorflow" THEN b ELSE <<>>)
                             \o Flatten(F)
             IN  /\ Drawn(drawn)
                 /\ tape' = Extend(drawn)
                 /\ rng' = rng + Len(drawn)
          /\ m_true' = t
          /\ m_n_obs' = n
          /\ m_x' = MultipleInputs(F)
          /\ m_y' = gen_multiple_linear(t, F)
          /\ m_betas' = b
          /\ stdout' = stdout \o Report("Actual beta", IntArr(t))
                               \o Report("Initial value for beta", b)
    /\ m_fw' = f
    /\ m_pc' = "train"
    /\ UNCHANGED <<m_step, numpy_vars, graphs_vars, keras_vars, theano_vars, tf_vars>>

\* one step of gradient descent on the mean squared error over all the
\* observations: sess.run(train, ...) or one epoch of fit
MultipleTrain ==
    /\ m_pc = "train"
    /\ m_step < NumEpochs
    /\ m_step' = m_step + 1
    /\ LET e == ArrSub(m_y, MatVec(m_x, m_betas))
       IN  m_betas' =
              [j \in 1..NumBetas |->
                  FSub(m_betas[j],
                       FMul(learning_rate,
                            FMul(GradScale(m_fw),
                                 ArrMean(ArrMul(ArrNeg(e), Column(m_x, j))))))]
    /\ UNCHANGED <<m_pc, m_fw, m_true, m_n_obs, m_x, m_y, stdout, rng, tape,
                   numpy_vars, graphs_vars, keras_vars, theano_vars, tf_vars>>

\* the coefficients are read and printed
MultipleFinish ==
    /\ m_pc = "train"
    /\ m_step = NumEpochs
    /\ stdout' = stdout \o Report(IF m_fw = "keras" THEN "Initial value for beta"
                                                   ELSE "Final value for beta", m_betas)
    /\ m_pc' = "done"
    /\ UNCHANGED <<m_fw, m_true, m_n_obs, m_x, m_y, m_betas, m_step, rng, tape,
                   numpy_vars, graphs_vars, keras_vars, theano_vars, tf_vars>>

(***************************************************************************)
(* The cells that call a generator and a trainer: a kernel runs either the *)
(* simple regression cell or a multiple regression cell.                   *)
(***************************************************************************)
NextCallers ==
    \/ /\ m_pc = "idle"
       /\ \E r \in Runs : CallerCell(r) \/ learn_w_gradient_descent(r)
    \/ /\ \A r \in Runs : pc[r] = "idle"
       /\ \/ \E f \in Frameworks : MultipleCallerCell(f)
          \/ MultipleTrain
          \/ MultipleFinish

SpecCallers == Init /\ [][NextCallers]_vars

(***************************************************************************)
(* The theano notebook: get_theano_graph builds a function, train, over    *)
(* two shared variables; the cell calls it in a loop.                      *)
(***************************************************************************)
\* values np.random.random() returns for the initial shared variables
UnitVals == {Norm(1, 2), Norm(1, 4)}

\* lines 122-124: draw the true coefficients and n_obs, print the true
\* coefficients
TheanoCallerCell ==
    /\ th_pc = "idle"
    /\ \E t0 \in TrueVals, t1 \in TrueVals, n \in TrueLo..(TrueHi - 1) :
          /\ \E x \in GenXs : Len(x) = n
          /\ Drawn(<<t0, t1, n>>)
          /\ tape' = Extend(<<t0, t1, n>>)
          /\ th_true' = <<t0, t1, n>>
          /\ stdout' = stdout \o << <<"Actual beta_0", FromInt(t0)>>,
                                    <<"Actual beta_1", FromInt(t1)>> >>
    /\ rng' = rng + 3
    /\ th_pc' = "graph"
    /\ UNCHANGED <<th_xs, th_ys, th_beta, th_out, th_calls, th_hist,
                   numpy_vars, graphs_vars, keras_vars, multiple_vars, tf_vars>>

\* get_theano_graph: create the shared variables from two random floats,
\* print them and return train
get_theano_graph ==
    /\ th_pc = "graph"
    /\ \E b0 \in UnitVals, b1 \in UnitVals :
          /\ Drawn(<<b0, b1>>)
          /\ tape' = Extend(<<b0, b1>>)
          /\ th_beta' = <<b0, b1>>
          /\ th_hist' = << <<b0, b1>> >>
          /\ stdout' = stdout \o << <<"Initial theano value for beta_0", b0>>,
                                    <<"Initial theano value for beta_1", b1>> >>
    /\ rng' = rng + 2
    /\ th_pc' = "data"
    /\ UNCHANGED <<th_true, th_xs, th_ys, th_out, th_calls,
                   numpy_vars, graphs_vars, keras_vars, multiple_vars, tf_vars>>

\* line 132: xs, ys = gen_simple_linear(true_beta_0, true_beta_1, n_obs)
TheanoGenerate ==
    /\ th_pc = "data"
    /\ \E x \in GenXs :
          /\ Len(x) = th_true[3]
          /\ Drawn(x)
          /\ tape' = Extend(x)
          /\ th_xs' = IntArr(x)
          /\ th_ys' = gen_simple_linear(th_true[1], th_true[2], x)
    /\ rng' = rng + th_true[3]
    /\ th_pc' = "loop"
    /\ UNCHANGED <<th_true, th_beta, th_out, th_calls, th_hist, stdout,
                   numpy_vars, graphs_vars, keras_vars, multiple_vars, tf_vars>>

\* train with the updates applied one after the other: the new beta_1 is
\* computed from the new beta_0
trainSequential ==
    /\ th_pc = "loop"
    /\ th_calls < NumIterations
    /\ LET yh  == ScalarAffine(th_beta[1], th_beta[2], th_xs)
           e   == ArrSub(th_ys, yh)
           b0  == FSub(th_beta[1], FMul(learning_rate, ArrMean(ArrNeg(e))))
           e1  == ArrSub(th_ys, ScalarAffine(b0, th_beta[2], th_xs))
           b1  == FSub(th_beta[2], FMul(learning_rate, ArrMean(ArrMul(ArrNeg(e1), th_xs))))
       IN  /\ th_beta' = <<b0, b1>>
           /\ th_hist' = Append(th_hist, <<b0, b1>>)
           /\ th_out' = [yhats |-> e, errors |-> yh]
    /\ th_calls' = th_calls + 1
    /\ UNCHANGED <<th_pc, th_true, th_xs, th_ys, stdout, rng, tape,
                   numpy_vars, graphs_vars, keras_vars, multiple_vars, tf_vars>>

\* train with the cost E = (0.5 * es ** 2).sum(): the gradients are sums
\* over the observations
trainSumCost ==
    /\ th_pc = "loop"
    /\ th_calls < NumIterations
    /\ LET yh == ScalarAffine(th_beta[1], th_beta[2], th_xs)
           e  == ArrSub(th_ys, yh)
           d0 == ArrSum(ArrNeg(e))
           d1 == ArrSum(ArrMul(ArrNeg(e), th_xs))
           b0 == FSub(th_beta[1], FMul(learning_rate, d0))
           b1 == FSub(th_beta[2], FMul(learning_rate, d1))
       IN  /\ th_beta' = <<b0, b1>>
           /\ th_hist' = Append(th_hist, <<b0, b1>>)
           /\ th_out' = [yhats |-> e, errors |-> yh]
    /\ th_calls' = th_calls + 1
    /\ UNCHANGED <<th_pc, th_true, th_xs, th_ys, stdout, rng, tape,
                   numpy_vars, graphs_vars, keras_vars, multiple_vars, tf_vars>>

\* one call theano_linear_graph(xs, ys) of train in the loop of lines
\* 135-136: the outputs [es, yhats] and both updates are computed from the
\* shared values held when the call starts, the gradients being those of
\* E = (0.5 * es ** 2).mean(); the cell binds the outputs to the names
\* yhats, errors in this order
train ==
    /\ th_pc = "loop"
    /\ th_calls < NumIterations
    /\ LET yh  == ScalarAffine(th_beta[1], th_beta[2], th_xs)
           e   == ArrSub(th_ys, yh)
           d0  == ArrMean(ArrNeg(e))
           d1  == ArrMean(ArrMul(ArrNeg(e), th_xs))
           b0  == FSub(th_beta[1], FMul(learning_rate, d0))
           b1  == FSub(th_beta[2], FMul(learning_rate, d1))
       IN  /\ th_beta' = <<b0, b1>>
           /\ th_hist' = Append(th_hist, <<b0, b1>>)
           /\ th_out' = [yhats |-> e, errors |-> yh]
    /\ th_calls' = th_calls + 1
    /\ UNCHANGED <<th_pc, th_true, th_xs, th_ys, stdout, rng, tape,
                   numpy_vars, graphs_vars, keras_vars, multiple_vars, tf_vars>>

\* lines 137-139: read the shared variables and print them
TheanoFinish ==
    /\ th_pc = "loop"
    /\ th_calls = NumIterations
    /\ stdout' = stdout \o << <<"Final theano value for beta_0", th_beta[1]>>,
                              <<"Final theano value for beta_1", th_beta[2]>> >>
    /\ th_pc' = "done"
    /\ UNCHANGED <<th_true, th_xs, th_ys, th_beta, th_out, th_calls, th_hist,
                   rng, tape, numpy_vars, graphs_vars, keras_vars, multiple_vars, tf_vars>>

NextTheano ==
    \/ TheanoCallerCell
    \/ get_theano_graph
    \/ TheanoGenerate
    \/ train
    \/ TheanoFinish

SpecTheano == Init /\ [][NextTheano]_vars

(***************************************************************************)
(* The tensorflow notebook: get_tensorflow_graph builds two variables and  *)
(* two assign operations; the cell runs them in a session.                 *)
(***************************************************************************)
\* lines 121-123: draw the true coefficients and n_obs, print the true
\* coefficients
TfCallerCell ==
    /\ tf_pc = "idle"
    /\ \E t0 \in TrueVals, t1 \in TrueVals, n \in TrueLo..(TrueHi - 1) :
          /\ \E x \in GenXs : Len(x) = n
          /\ Drawn(<<t0, t1, n>>)
          /\ tape' = Extend(<<t0, t1, n>>)
          /\ tf_true' = <<t0, t1, n>>
          /\ stdout' = stdout \o << <<"Actual beta_0", FromInt(t0)>>,
                                    <<"Actual beta_1", FromInt(t1)>> >>
    /\ rng' = rng + 3
    /\ tf_pc' = "graph"
    /\ UNCHANGED <<tf_x, tf_y, tf_initial, tf_var, tf_fetched, tf_names, tf_step,
                   tf_new, tf_hist, numpy_vars, graphs_vars, keras_vars, multiple_vars, theano_vars>>

\* get_tensorflow_graph: the two variables get random floats as their
\* initial values; nothing is assigned until the session runs init
get_tensorflow_graph ==
    /\ tf_pc = "graph"
    /\ \E b0 \in UnitVals, b1 \in UnitVals :
          /\ Drawn(<<b0, b1>>)
          /\ tape' = Extend(<<b0, b1>>)
          /\ tf_initial' = <<b0, b1>>
    /\ rng' = rng + 2
    /\ tf_pc' = "data"
    /\ UNCHANGED <<tf_true, tf_x, tf_y, tf_var, tf_fetched, tf_names, tf_step,
                   tf_new, tf_hist, stdout, numpy_vars, graphs_vars, keras_vars, multiple_vars, theano_vars>>

\* line 131: x, y = gen_simple_linear(true_beta_0, true_beta_1, n_obs)
TfGenerate ==
    /\ tf_pc = "data"
    /\ \E x \in GenXs :
          /\ Len(x) = tf_true[3]
          /\ Drawn(x)
          /\ tape' = Extend(x)
          /\ tf_x' = IntArr(x)
          /\ tf_y' = gen_simple_linear(tf_true[1], tf_true[2], x)
    /\ rng' = rng + tf_true[3]
    /\ tf_pc' = "init"
    /\ UNCHANGED <<tf_true, tf_initial, tf_var, tf_fetched, tf_names, tf_step,
                   tf_new, tf_hist, stdout, numpy_vars, graphs_vars, keras_vars, multiple_vars, theano_vars>>

\* lines 134-136: sess.run(init) gives the variables their initial values
TfInitialize ==
    /\ tf_pc = "init"
    /\ tf_var' = tf_initial
    /\ tf_hist' = <<tf_initial>>
    /\ tf_pc' = "fetch"
    /\ UNCHANGED <<tf_true, tf_x, tf_y, tf_initial, tf_fetched, tf_names, tf_step,
                   tf_new, stdout, rng, tape, numpy_vars, graphs_vars, keras_vars, multiple_vars, theano_vars>>

\* TfFetch with an assign operation among the fetches
\* (sess.run([beta_0.assign(0.0), beta_1]))
TfFetchAssigning ==
    /\ tf_pc = "fetch"
    /\ tf_var' = <<FromInt(0), tf_var[2]>>
    /\ tf_fetched' = <<FromInt(0), tf_var[2]>>
    /\ stdout' = stdout \o << <<"Initial tensorflow value for beta_0", FromInt(0)>>,
                              <<"Initial tensorflow for beta_1", tf_var[2]>> >>
    /\ tf_pc' = "loop"
    /\ UNCHANGED <<tf_true, tf_x, tf_y, tf_initial, tf_names, tf_step,
                   tf_new, tf_hist, rng, tape, numpy_vars, graphs_vars, keras_vars, multiple_vars, theano_vars>>

\* lines 139-141: init_beta_0, init_beta_1 = sess.run([beta_0, beta_1]) reads
\* the variables; the values are printed
TfFetch ==
    /\ tf_pc = "fetch"
    /\ tf_fetched' = tf_var
    /\ stdout' = stdout \o << <<"Initial tensorflow value for beta_0", tf_var[1]>>,
                              <<"Initial tensorflow for beta_1", tf_var[2]>> >>
    /\ tf_pc' = "loop"
    /\ UNCHANGED <<tf_true, tf_x, tf_y, tf_initial, tf_var, tf_names, tf_step,
                   tf_new, tf_hist, rng, tape, numpy_vars, graphs_vars, keras_vars, multiple_vars, theano_vars>>

\* sess.run([beta_0_update, beta_1_update], feed_dict={xs : x, ys : y}), first
\* part: the operations both assigns depend on.  yhats and es are computed
\* once from the variables; E = 0.5 * es ** 2 is a vector, so tf.gradients
\* gives the gradients of its sum, the scalars sum(-es) and sum(-es * xs),
\* of which tf.reduce_mean is the scalar itself; new_beta_k reads only
\* variable k, which nothing has assigned yet.
TfForward ==
    /\ tf_pc = "loop"
    /\ tf_step < NumIterations
    /\ LET yh == ScalarAffine(tf_var[1], tf_var[2], tf_x)
           e  == ArrSub(tf_y, yh)
           d0 == ArrSum(ArrNeg(e))
           d1 == ArrSum(ArrMul(ArrNeg(e), tf_x))
       IN  tf_new' = << FSub(tf_var[1], FMul(learning_rate, d0)),
                        FSub(tf_var[2], FMul(learning_rate, d1)) >>
    /\ tf_pc' = "assign"
    /\ UNCHANGED <<tf_true, tf_x, tf_y, tf_initial, tf_var, tf_fetched, tf_names,
                   tf_step, tf_hist, stdout, rng, tape,
                   numpy_vars, graphs_vars, keras_vars, multiple_vars, theano_vars>>

\* beta_0_update = tf.assign(beta_0, new_beta_0); the two assigns of one run
\* are not ordered
TfAssign0 ==
    /\ tf_pc \in {"assign", "assigned1"}
    /\ tf_var' = <<tf_new[1], tf_var[2]>>
    /\ tf_pc' = IF tf_pc = "assign" THEN "assigned0" ELSE "assigned"
    /\ UNCHANGED <<tf_true, tf_x, tf_y, tf_initial, tf_fetched, tf_names, tf_step,
                   tf_new, tf_hist, stdout, rng, tape,
                   numpy_vars, graphs_vars, keras_vars, multiple_vars, theano_vars>>

\* TfAssign1 with new_beta_1 evaluated from the variables as they are when
\* the assign executes, after beta_0_update may have written
TfAssign1Observing ==
    /\ tf_pc \in {"assign", "assigned0"}
    /\ LET yh == ScalarAffine(tf_var[1], tf_var[2], tf_x)
           e  == ArrSub(tf_y, yh)
           d1 == ArrSum(ArrMul(ArrNeg(e), tf_x))
       IN  tf_var' = <<tf_var[1], FSub(tf_var[2], FMul(learning_rate, d1))>>
    /\ tf_pc' = IF tf_pc = "assign" THEN "assigned1" ELSE "assigned"
    /\ UNCHANGED <<tf_true, tf_x, tf_y, tf_initial, tf_fetched, tf_names, tf_step,
                   tf_new, tf_hist, stdout, rng, tape,
                   numpy_vars, graphs_vars, keras_vars, multiple_vars, theano_vars>>

\* beta_1_update = tf.assign(beta_1, new_beta_1)
TfAssign1 ==
    /\ tf_pc \in {"assign", "assigned0"}
    /\ tf_var' = <<tf_var[1], tf_new[2]>>
    /\ tf_pc' = IF tf_pc = "assign" THEN "assigned1" ELSE "assigned"
    /\ UNCHANGED <<tf_true, tf_x, tf_y, tf_initial, tf_fetched, tf_names, tf_step,
                   tf_new, tf_hist, stdout, rng, tape,
                   numpy_vars, graphs_vars, keras_vars, multiple_vars, theano_vars>>

\* the run returns the values of the two assigns, which the cell binds to
\* the names beta_0, beta_1 (lines 144-145)
TfReturn ==
    /\ tf_pc = "assigned"
    /\ tf_names' = tf_new
    /\ tf_hist' = Append(tf_hist, tf_var)
    /\ tf_step' = tf_step + 1
    /\ tf_pc' = "loop"
    /\ UNCHANGED <<tf_true, tf_x, tf_y, tf_initial, tf_var, tf_fetched, tf_new,
                   stdout, rng, tape, numpy_vars, graphs_vars, keras_vars, multiple_vars, theano_vars>>

\* lines 146-147: print the values the last run returned
TfFinish ==
    /\ tf_pc = "loop"
    /\ tf_step = NumIterations
    /\ stdout' = stdout \o << <<"Final tensorflow value for beta_0", tf_names[1]>>,
                              <<"Final tensorflow for beta_1", tf_names[2]>> >>
    /\ tf_pc' = "done"
    /\ UNCHANGED <<tf_true, tf_x, tf_y, tf_initial, tf_var, tf_fetched, tf_names,
                   tf_step, tf_new, tf_hist, rng, tape,
                   numpy_vars, graphs_vars, keras_vars, multiple_vars, theano_vars>>

NextTf ==
    \/ TfCallerCell
    \/ get_tensorflow_graph
    \/ TfGenerate
    \/ TfInitialize
    \/ TfFetch
    \/ TfForward
    \/ TfAssign0
    \/ TfAssign1
    \/ TfReturn
    \/ TfFinish

SpecTf == Init /\ [][NextTf]_vars

(***************************************************************************)
(* Two functions obtained from two calls of get_theano_graph: each call     *)
(* creates its own pair of shared variables (theano.shared, lines 59-60),   *)
(* which the function it returns reads and updates.                        *)
(***************************************************************************)
Graphs == 1..2

\* lines 122 and 132: the observations the functions are called on
GraphsData ==
    /\ g_data = Unset
    /\ \E t0 \in TrueVals, t1 \in TrueVals, x \in GenXs :
          /\ Drawn(<<t0, t1, Len(x)>> \o x)
          /\ tape' = Extend(<<t0, t1, Len(x)>> \o x)
          /\ rng' = rng + 3 + Len(x)
          /\ g_data' = <<IntArr(x), gen_simple_linear(t0, t1, x)>>
    /\ UNCHANGED <<g_beta, g_init, g_calls, stdout,
                   numpy_vars, multiple_vars, theano_vars, tf_vars, keras_vars>>

\* a call of get_theano_graph: two new shared variables with random values,
\* printed; the function returned is number g
GraphsBuild(g) ==
    /\ g_data # Unset
    /\ g_beta[g] = Unset
    /\ \E b0 \in UnitVals, b1 \in UnitVals :
          /\ Drawn(<<b0, b1>>)
          /\ tape' = Extend(<<b0, b1>>)
          /\ g_beta' = [g_beta EXCEPT ![g] = <<b0, b1>>]
          /\ g_init' = [g_init EXCEPT ![g] = <<b0, b1>>]
          /\ stdout' = stdout \o << <<"Initial theano value for beta_0", b0>>,
                                    <<"Initial theano value for beta_1", b1>> >>
    /\ rng' = rng + 2
    /\ UNCHANGED <<g_data, g_calls,
                   numpy_vars, multiple_vars, theano_vars, tf_vars, keras_vars>>

\* the updates of one call of a train function from its shared values b
TrainUpdates(b, x, y) ==
    LET yh == ScalarAffine(b[1], b[2], x)
        e  == ArrSub(y, yh)
        d0 == ArrMean(ArrNeg(e))
        d1 == ArrMean(ArrMul(ArrNeg(e), x))
    IN  << FSub(b[1], FMul(learning_rate, d0)),
           FSub(b[2], FMul(learning_rate, d1)) >>

\* GraphsTrain with beta_0 and beta_1 created once at module level, so that
\* every function updates the same two shared variables
GraphsTrainModuleLevel(g) ==
    /\ g_beta[g] # Unset
    /\ g_calls[g] < NumIterations
    /\ g_beta' = [h \in Graphs |->
                    IF g_beta[h] = Unset THEN Unset
                    ELSE TrainUpdates(g_beta[g], g_data[1], g_data[2])]
    /\ g_calls' = [g_calls EXCEPT ![g] = @ + 1]
    /\ UNCHANGED <<g_data, g_init, stdout, rng, tape,
                   numpy_vars, multiple_vars, theano_vars, tf_vars, keras_vars>>

\* one call of function g: its updates are applied to its own shared
\* variables
GraphsTrain(g) ==
    /\ g_beta[g] # Unset
    /\ g_calls[g] < NumIterations
    /\ g_beta' = [g_beta EXCEPT ![g] = TrainUpdates(g_beta[g], g_data[1], g_data[2])]
    /\ g_calls' = [g_calls EXCEPT ![g] = @ + 1]
    /\ UNCHANGED <<g_data, g_init, stdout, rng, tape,
                   numpy_vars, multiple_vars, theano_vars, tf_vars, keras_vars>>

NextGraphs ==
    \/ GraphsData
    \/ \E g \in Graphs : GraphsBuild(g)
    \/ \E g \in Graphs : GraphsTrain(g)

SpecGraphs == Init /\ [][NextGraphs]_vars

(***************************************************************************)
(* The keras notebook: get_keras_model builds a one-unit linear layer       *)
(* compiled with the loss mean_squared_error and SGD(0.1); the cell fits    *)
(* it.  The weights are kept as <<bias, kernel>>, that is <<beta_0,         *)
(* beta_1>>.                                                                *)
(***************************************************************************)
\* initial kernel of Dense(1): keras draws it uniformly from an interval
\* around zero
GlorotVals == {Norm(-1, 1), Norm(1, 2), Norm(3, 2)}

\* lines 127-129: draw the true coefficients and n_obs, print the true
\* coefficients
KerasCallerCell ==
    /\ k_pc = "idle"
    /\ \E t0 \in TrueVals, t1 \in TrueVals, n \in TrueLo..(TrueHi - 1) :
          /\ \E x \in GenXs : Len(x) = n
          /\ Drawn(<<t0, t1, n>>)
          /\ tape' = Extend(<<t0, t1, n>>)
          /\ k_true' = <<t0, t1, n>>
          /\ stdout' = stdout \o << <<"Actual beta_0", FromInt(t0)>>,
                                    <<"Actual beta_1", FromInt(t1)>> >>
    /\ rng' = rng + 3
    /\ k_pc' = "data"
    /\ UNCHANGED <<k_xs, k_ys, k_weights, k_epoch, k_hist,
                   numpy_vars, graphs_vars, multiple_vars, theano_vars, tf_vars>>

\* line 133: xs, ys = gen_simple_linear(true_beta_0, true_beta_1, n_obs)
KerasGenerate ==
    /\ k_pc = "data"
    /\ \E x \in GenXs :
          /\ Len(x) = k_true[3]
          /\ Drawn(x)
          /\ tape' = Extend(x)
          /\ k_xs' = IntArr(x)
          /\ k_ys' = gen_simple_linear(k_true[1], k_true[2], x)
    /\ rng' = rng + k_true[3]
    /\ k_pc' = "model"
    /\ UNCHANGED <<k_true, k_weights, k_epoch, k_hist, stdout,
                   numpy_vars, graphs_vars, multiple_vars, theano_vars, tf_vars>>

\* lines 136-141: linear_model = get_keras_model(); the bias starts at zero
\* and the kernel at a random value; both are printed
get_keras_model ==
    /\ k_pc = "model"
    /\ \E w \in GlorotVals :
          /\ Drawn(<<w>>)
          /\ tape' = Extend(<<w>>)
          /\ k_weights' = <<FromInt(0), w>>
          /\ k_hist' = << <<FromInt(0), w>> >>
          /\ stdout' = stdout \o << <<"Initial keras value for beta_0", FromInt(0)>>,
                                    <<"Initial keras for beta_1", w>> >>
    /\ rng' = rng + 1
    /\ k_pc' = "fit"
    /\ UNCHANGED <<k_true, k_xs, k_ys, k_epoch,
                   numpy_vars, graphs_vars, multiple_vars, theano_vars, tf_vars>>

\* one epoch of linear_model.fit(xs, ys, nb_epoch=5000) (line 144): the
\* observations are fewer than the batch size, so the epoch is one batch.
\* The loss mean_squared_error is the mean over the observations of
\* (yhats - ys) ** 2, whose gradients are twice the means of -es and of
\* -es * xs; SGD(0.1) subtracts 0.1 times the gradient from each weight.
fitEpoch ==
    /\ k_pc = "fit"
    /\ k_epoch < NumIterations
    /\ LET yh == ScalarAffine(k_weights[1], k_weights[2], k_xs)
           e  == ArrSub(k_ys, yh)
           d0 == FMul(FromInt(2), ArrMean(ArrNeg(e)))
           d1 == FMul(FromInt(2), ArrMean(ArrMul(ArrNeg(e), k_xs)))
           w  == << FSub(k_weights[1], FMul(learning_rate, d0)),
                    FSub(k_weights[2], FMul(learning_rate, d1)) >>
       IN  /\ k_weights' = w
           /\ k_hist' = Append(k_hist, w)
    /\ k_epoch' = k_epoch + 1
    /\ UNCHANGED <<k_pc, k_true, k_xs, k_ys, stdout, rng, tape,
                   numpy_vars, graphs_vars, multiple_vars, theano_vars, tf_vars>>

\* lines 145-148: read the weights and print them
KerasFinish ==
    /\ k_pc = "fit"
    /\ k_epoch = NumIterations
    /\ stdout' = stdout \o << <<"Final keras value for beta_0", k_weights[1]>>,
                              <<"Final keras for beta_1", k_weights[2]>> >>
    /\ k_pc' = "done"
    /\ UNCHANGED <<k_true, k_xs, k_ys, k_weights, k_epoch, k_hist, rng, tape,
                   numpy_vars, graphs_vars, multiple_vars, theano_vars, tf_vars>>

NextKeras ==
    \/ KerasCallerCell
    \/ KerasGenerate
    \/ get_keras_model
    \/ fitEpoch
    \/ KerasFinish

SpecKeras == Init /\ [][NextKeras]_vars

(***************************************************************************)
(* Properties.                                                             *)
(***************************************************************************)
\* coefficients run r held when its current iteration started
AtLoopHead(r) == hist[r][Len(hist[r])]

\* run r has been called
Called(r) == pc[r] # "idle"

\* C1: in every iteration both gradients come from the coefficients held at
\* the start of the iteration: while the two updates are pending or half
\* applied the stored gradients are those of the loop-head coefficients, and
\* the beta_1 the latest completed iteration left is the old beta_1 minus
\* learning_rate times the mean gradient taken at the old beta_0, never at
\* the updated one.
C1_GradientsFromLoopHead ==
    \A r \in Runs :
        /\ pc[r] \in {"upd0", "upd1"} =>
              LET pre == AtLoopHead(r)
                  e   == ArrSub(ys[r], ScalarAffine(pre[1], pre[2], xs[r]))
              IN  /\ d_beta_0[r] = ArrNeg(e)
                  /\ d_beta_1[r] = ArrMul(ArrNeg(e), xs[r])
        /\ Len(hist[r]) >= 2 =>
              LET pre == hist[r][Len(hist[r]) - 1]
                  e   == ArrSub(ys[r], ScalarAffine(pre[1], pre[2], xs[r]))
              IN  AtLoopHead(r)[2] =
                     FSub(pre[2], FMul(learning_rate, ArrMean(ArrMul(ArrNeg(e), xs[r]))))

\* C1 witness: beta_0 has already been changed in this iteration and the
\* update of beta_1 is still to come, with a gradient that is not zero
C1_Witness ==
    \E r \in Runs :
        /\ pc[r] = "upd1"
        /\ beta_0[r] # AtLoopHead(r)[1]
        /\ IsFinite(beta_0[r])
        /\ ArrMean(d_beta_1[r]) # FromInt(0)

\* sum of f[1] .. f[n]
RECURSIVE SumTo(_, _)
SumTo(f, n) == IF n = 0 THEN FromInt(0) ELSE FAdd(SumTo(f, n - 1), f[n])

\* residual of observation i at coefficients (b0, b1)
Residual(b0, b1, x, y, i) == FSub(y[i], FAdd(b0, FMul(b1, x[i])))

\* g0: the negative mean residual
G0(b0, b1, x, y) ==
    FNeg(FDivInt(SumTo([i \in 1..Len(x) |-> Residual(b0, b1, x, y, i)], Len(x)), Len(x)))

\* g1: the negative mean of residual times feature
G1(b0, b1, x, y) ==
    FNeg(FDivInt(SumTo([i \in 1..Len(x) |-> FMul(Residual(b0, b1, x, y, i), x[i])], Len(x)),
                 Len(x)))

\* one iteration by the stated rule
RuleStep(b, x, y) ==
    << FSub(b[1], FMul(learning_rate, G0(b[1], b[2], x, y))),
       FSub(b[2], FMul(learning_rate, G1(b[1], b[2], x, y))) >>

\* C2: one iteration from (b0, b1) over observations (xs, ys) of the same
\* length leaves b0 - learning_rate * g0 and b1 - learning_rate * g1, g0 the
\* negative mean residual and g1 the negative mean of residual times xs_i
\* (stated of the latest completed iteration, in every state).
C2_UpdateRule ==
    \A r \in Runs :
        (Called(r) /\ Len(xs[r]) = Len(ys[r]) /\ Len(hist[r]) >= 2) =>
            AtLoopHead(r) = RuleStep(hist[r][Len(hist[r]) - 1], xs[r], ys[r])

\* C2 witness: an iteration over two observations has moved both coefficients
C2_Witness ==
    \E r \in Runs :
        /\ Len(xs[r]) = Len(ys[r])
        /\ Len(xs[r]) >= 2
        /\ Len(hist[r]) >= 2
        /\ hist[r][2][1] # hist[r][1][1]
        /\ hist[r][2][2] # hist[r][1][2]
        /\ IsFinite(hist[r][2][1]) /\ IsFinite(hist[r][2][2])

\* the shapes of the arguments of run r broadcast against each other
ArgsBroadcast(r) == Broadcastable(Len(xs[r]), Len(ys[r]))

\* run r is the latest run started
LastRun(r) == \A q \in Runs : q > r => pc[q] = "idle"

\* C3, as stated: for every input the loop makes exactly the fixed number of
\* update steps of each coefficient before the run ends.
C3_Original ==
    \A r \in Runs :
        pc[r] \in Terminal => nupd[r] = <<NumIterations, NumIterations>>

\* C3, amended: for every input on which the residual computation does not
\* raise (xs and ys of equal length, or one of them of length 1) the loop makes
\* exactly the fixed number of update steps of each coefficient and then the
\* run ends; it never ends early, not even after an iteration that left the
\* coefficients unchanged; until then a statement of the function is always
\* next (the loop test with at most the fixed number of iterations started,
\* or one of the two updates), so the run is never stuck and never loops on.
C3_FixedIterations ==
    \A r \in Runs :
        /\ (Called(r) /\ ArgsBroadcast(r)) => pc[r] # "error"
        /\ pc[r] = "done" =>
              /\ nupd[r] = <<NumIterations, NumIterations>>
              /\ it[r] = NumIterations
              /\ Len(hist[r]) = NumIterations + 1
        /\ (Called(r) /\ pc[r] \notin Terminal) =>
              /\ pc[r] \in {"init", "loop", "upd0", "upd1"}
              /\ it[r] <= NumIterations
              /\ pc[r] \in {"upd0", "upd1"} => it[r] = nupd[r][2] + 1
              /\ pc[r] = "loop" => nupd[r] = <<it[r], it[r]>>

\* C3 witness: a run whose first iteration left the coefficients unchanged
\* went on and ended after all the iterations
C3_Witness ==
    \E r \in Runs :
        /\ pc[r] = "done"
        /\ nupd[r] = <<NumIterations, NumIterations>>
        /\ hist[r][2] = hist[r][1]
        /\ IsFinite(hist[r][1][1])

\* the arguments of run r are malformed: no observation, or lengths that differ
Malformed(r) == Called(r) /\ (Len(xs[r]) = 0 \/ Len(xs[r]) # Len(ys[r]))

\* C4, as stated: a trainer called with zero observations or with inputs and
\* outputs of different lengths ends in an error instead of training.
C4_Original ==
    \A r \in Runs :
        Malformed(r) => /\ nupd[r] = <<0, 0>>
                        /\ pc[r] # "done"

\* C4, amended: the trainer checks nothing.  Only arguments whose lengths
\* differ with neither of them 1 end the run in an error, numpy's ValueError
\* raised by the first residual computation; with zero observations, or with
\* lengths that differ where one is 1, nothing is raised and all iterations
\* run, and with zero observations both coefficients end as NaN.
C4_NoValidation ==
    \A r \in Runs :
        /\ pc[r] = "error" =>
              /\ ~ArgsBroadcast(r)
              /\ exc[r] = "ValueError"
              /\ it[r] = 1
        /\ (Called(r) /\ ~ArgsBroadcast(r)) =>
              /\ pc[r] \in {"init", "loop", "error"}
              /\ it[r] = 0 \/ pc[r] = "error"
        /\ (Malformed(r) /\ ArgsBroadcast(r) /\ pc[r] = "done") =>
              /\ exc[r] = NoExc
              /\ nupd[r] = <<NumIterations, NumIterations>>
              /\ Len(xs[r]) = 0 => (beta_0[r] = NaN /\ beta_1[r] = NaN)

\* C4 witness: one run with lengths 3 and 2 has ended in the error and one
\* run with zero observations has trained to the end
C4_Witness ==
    \E r, q \in Runs :
        /\ pc[r] = "error" /\ Len(xs[r]) = 3 /\ Len(ys[r]) = 2
        /\ pc[q] = "done" /\ Len(xs[q]) = 0 /\ Len(ys[q]) = 0
        /\ beta_0[q] = NaN

\* C5: no run applies a coefficient update and then fails: a run that has
\* failed has made no assignment to a coefficient and still holds the
\* coefficients it drew.
C5_NoPartialFailure ==
    \A r \in Runs :
        pc[r] = "error" =>
            /\ nupd[r] = <<0, 0>>
            /\ hist[r] = << <<beta_0[r], beta_1[r]>> >>

\* C5 witness: one run has failed and another one, whose coefficients are no
\* longer finite, has completed
C5_Witness ==
    \E r, q \in Runs :
        /\ pc[r] = "error"
        /\ pc[q] = "done"
        /\ ~IsFinite(beta_0[q])
        /\ nupd[q] = <<NumIterations, NumIterations>>

\* some element of array a is an infinity or NaN
HasNonFinite(a) == \E i \in 1..Len(a) : ~IsFinite(a[i])

\* the training of run r has overflowed: it has observations, and a
\* prediction, a gradient or a coefficient is no longer finite
Diverged(r) ==
    /\ pc[r] \in {"loop", "upd0", "upd1", "done"}
    /\ it[r] >= 1
    /\ Len(xs[r]) > 0
    /\ \/ HasNonFinite(yhats[r])
       \/ HasNonFinite(d_beta_1[r])
       \/ ~IsFinite(beta_0[r])
       \/ ~IsFinite(beta_1[r])

\* C6: a run whose coefficients grow out of range is never in an error state
\* and is neither stopped nor clamped: at each loop head the coefficients are
\* the previous ones minus learning_rate times the mean gradients, whatever
\* their size, all the iterations are made, and the final report shows the
\* coefficients as they are.
C6_DivergenceUnguarded ==
    \A r \in Runs :
        Diverged(r) =>
            /\ pc[r] # "error"
            /\ exc[r] = NoExc
            /\ pc[r] \in {"loop", "done"} =>
                  LET pre == hist[r][Len(hist[r]) - 1]
                  IN  /\ beta_0[r] = FSub(pre[1], FMul(learning_rate, ArrMean(d_beta_0[r])))
                      /\ beta_1[r] = FSub(pre[2], FMul(learning_rate, ArrMean(d_beta_1[r])))
            /\ pc[r] = "done" =>
                  /\ nupd[r] = <<NumIterations, NumIterations>>
                  /\ LastRun(r) =>
                        SubSeq(stdout, Len(stdout) - 1, Len(stdout)) =
                           << <<"Final gradient descent beta_0", beta_0[r]>>,
                              <<"Final gradient descent beta_1", beta_1[r]>> >>

\* C6 witness: a run over two observations has ended with a coefficient that
\* started finite, overflowed to an infinity and is not finite at the end
C6_Witness ==
    \E r \in Runs :
        /\ pc[r] = "done"
        /\ Len(xs[r]) = 2
        /\ IsFinite(hist[r][1][2])
        /\ \E k \in 1..Len(hist[r]) : hist[r][k][2] \in {PosInf, NegInf}
        /\ ~IsFinite(beta_1[r])

\* the last two lines printed
LastTwoLines == SubSeq(stdout, Len(stdout) - 1, Len(stdout))

\* C7, as stated: the return value of the trainer is the coefficient vector
\* as it stands after the last update step.
C7_Original ==
    \A r \in Runs :
        pc[r] = "done" => ret[r] = <<beta_0[r], beta_1[r]>>

\* C7, amended: the trainer returns None; the coefficient vector as it stands
\* after the last update step is what it prints as its final estimates.
C7_ReturnsNone ==
    \A r \in Runs :
        /\ pc[r] # "done" => ret[r] = NotReturned
        /\ pc[r] = "done" =>
              /\ ret[r] = None
              /\ <<beta_0[r], beta_1[r]>> = hist[r][NumIterations + 1]
              /\ LastRun(r) =>
                    LastTwoLines =
                       << <<"Final gradient descent beta_0", hist[r][NumIterations + 1][1]>>,
                          <<"Final gradient descent beta_1", hist[r][NumIterations + 1][2]>> >>

\* C7 witness: a run has returned after a last iteration that changed both
\* coefficients
C7_Witness ==
    \E r \in Runs :
        /\ pc[r] = "done"
        /\ ret[r] = None
        /\ hist[r][NumIterations + 1][1] # hist[r][NumIterations][1]
        /\ hist[r][NumIterations + 1][2] # hist[r][NumIterations][2]
        /\ IsFinite(beta_0[r]) /\ IsFinite(beta_1[r])

\* runs started by the notebook cell, and runs in a given set of positions
CallerRuns == {r \in Runs : true_beta[r] # Unset}

RunsAt(S) == {r \in Runs : pc[r] \in S}

\* values the calling cells have drawn: three by the cell and one per
\* observation by the generator
RECURSIVE CallerDraws(_)
CallerDraws(n) ==
    IF n = 0 THEN 0
    ELSE CallerDraws(n - 1) + (IF n \in CallerRuns THEN 3 + Len(xs[n]) ELSE 0)

C9_ObservationsUnchanged ==
    [][\A r \in Runs : Called(r) => (xs'[r] = xs[r] /\ ys'[r] = ys[r])]_vars

\* C9 witness: a run of the notebook cell has changed its coefficients and
\* ended, and ys is still the noiseless data generated from xs
C9_Witness ==
    \E r \in Runs :
        /\ pc[r] = "done"
        /\ r \in CallerRuns
        /\ hist[r][NumIterations + 1] # hist[r][1]
        /\ xs[r] = IntArr(<<1, 2>>)
        /\ ys[r] = gen_simple_linear(true_beta[r][1], true_beta[r][2], <<1, 2>>)

Min(a, b) == IF a <= b THEN a ELSE b

\* C10: two runs that start from the same coefficients and are given the same
\* observation set hold the same coefficients at every iteration, whatever
\* true coefficients their callers hold.
C10_TrueCoefficientsUnread ==
    \A r, q \in Runs :
        ( /\ Len(hist[r]) >= 1 /\ Len(hist[q]) >= 1
          /\ xs[r] = xs[q] /\ ys[r] = ys[q]
          /\ hist[r][1] = hist[q][1] )
        => \A k \in 1..Min(Len(hist[r]), Len(hist[q])) : hist[r][k] = hist[q][k]

\* C10 witness: two completed runs with the same data and the same initial
\* coefficients whose callers hold different true coefficients, and whose
\* coefficients moved
C10_Witness ==
    \E r, q \in Runs :
        /\ pc[r] = "done" /\ pc[q] = "done"
        /\ r \in CallerRuns /\ q \in CallerRuns
        /\ true_beta[r] # true_beta[q]
        /\ xs[r] = xs[q] /\ ys[r] = ys[q]
        /\ hist[r][1] = hist[q][1]
        /\ hist[r][2] # hist[r][1]

\* C11: two runs of the notebook cell (generator plus trainer) that start at
\* the same position of the stream of the same seed are given the same true
\* coefficients and observations and hold identical coefficient values at
\* every iteration.
C11_SeededRunsAgree ==
    \A r, q \in CallerRuns :
        start[r] = start[q] =>
            /\ true_beta[r] = true_beta[q]
            /\ xs[r] = xs[q] /\ ys[r] = ys[q]
            /\ \A k \in 1..Min(Len(hist[r]), Len(hist[q])) : hist[r][k] = hist[q][k]

\* C11 witness: the cell has run to the end twice from the start of the same
\* stream, and the coefficients moved in every iteration
C11_Witness ==
    /\ pc[1] = "done" /\ pc[2] = "done"
    /\ 1 \in CallerRuns /\ 2 \in CallerRuns
    /\ start[1] = 0 /\ start[2] = 0
    /\ \A k \in 1..NumIterations : hist[2][k + 1] # hist[2][k]
    /\ IsFinite(beta_0[2]) /\ IsFinite(beta_1[2])

\* the tolerance of the recovery property, 1e-3
Tolerance == Norm(1, 1000)

\* coefficient a is within the tolerance of the true value t
WithinTolerance(a, t) ==
    IsFinite(a) /\ ~FLess(Tolerance, FAbs(FSub(a, FromInt(t))))

\* coefficients b fit every observation of run r exactly
ExactFit(r, b) ==
    /\ IsFinite(b[1]) /\ IsFinite(b[2])
    /\ Len(xs[r]) = Len(ys[r])
    /\ \A i \in 1..Len(xs[r]) : Residual(b[1], b[2], xs[r], ys[r], i) = FromInt(0)

\* the features of run r take at least two values
DistinctFeatures(r) == \E i, j \in 1..Len(xs[r]) : xs[r][i] # xs[r][j]

Residuals(r, b) ==
    [i \in 1..Len(xs[r]) |-> Residual(b[1], b[2], xs[r], ys[r], i)]

\* least common denominator of the finite doubles a[1] .. a[n]
RECURSIVE CommonDen(_, _)
CommonDen(a, n) ==
    IF n = 0 THEN 1
    ELSE LET l == CommonDen(a, n - 1)
         IN  (l \div GCD(l, a[n][2])) * a[n][2]

\* squares are kept in two limbs <<h, l>>, standing for h * Limb + l, so that
\* they do not leave the range of the integers
Limb == 2^15

BigSquare(k) ==
    LET a  == Abs(k)
        hi == a \div Limb
        lo == a % Limb
    IN  <<hi * hi * Limb + 2 * hi * lo + ((lo * lo) \div Limb), (lo * lo) % Limb>>

BigAdd(x, y) == <<x[1] + y[1] + ((x[2] + y[2]) \div Limb), (x[2] + y[2]) % Limb>>

BigLeq(x, y) == x[1] < y[1] \/ (x[1] = y[1] /\ x[2] <= y[2])

\* sum of the squares of e[1] .. e[n], each taken over the denominator den
RECURSIVE SumSquares(_, _, _)
SumSquares(e, den, n) ==
    IF n = 0 THEN <<0, 0>>
    ELSE BigAdd(SumSquares(e, den, n - 1), BigSquare(e[n][1] * (den \div e[n][2])))

\* the mean squared error of run r at coefficients b is no larger than at
\* coefficients a (both finite; the number of observations is the same)
MseNotLarger(r, b, a) ==
    LET eb  == Residuals(r, b)
        ea  == Residuals(r, a)
        n   == Len(xs[r])
        db  == CommonDen(eb, n)
        da  == CommonDen(ea, n)
        den == (db \div GCD(db, da)) * da
    IN  /\ \A i \in 1..n : IsFinite(eb[i]) /\ IsFinite(ea[i])
        /\ BigLeq(SumSquares(eb, den, n), SumSquares(ea, den, n))

SoloStep(b, x, y) ==
    LET e == ArrSub(y, ScalarAffine(b[1], b[2], x))
    IN  << FSub(b[1], FMul(learning_rate, ArrMean(ArrNeg(e)))),
           FSub(b[2], FMul(learning_rate, ArrMean(ArrMul(ArrNeg(e), x)))) >>

\* the two values at positions p + 1 and p + 2 of the random stream (none if
\* the stream has not come that far)
StreamPair(p) ==
    IF p + 2 <= Len(tape) THEN <<FromInt(tape[p + 1]), FromInt(tape[p + 2])>> ELSE <<>>

\* C14, as stated: two invocations whose steps interleave share no mutable
\* state, so the initial coefficients of each are the ones it would have
\* drawn running alone, the first two values of the random stream.
C14_Original ==
    \A r \in Runs : Len(hist[r]) >= 1 => hist[r][1] = StreamPair(0)

\* C14, amended: two invocations whose steps interleave share the
\* module-level random number generator (and standard output) and nothing
\* else.  The invocation that draws first gets the first two values of the
\* random stream and the other one the next two, so the initial coefficients
\* of an invocation depend on the interleaving; from its initial coefficients
\* on, every coefficient value of an invocation is the one it would compute
\* running alone: in every state its coefficients and gradients are those
\* that its own history determines, whatever the other invocation has done.
C14_LocalsPrivate ==
    \A r \in Runs :
        /\ Len(hist[r]) >= 1 =>
              /\ hist[r][1] \in {StreamPair(0), StreamPair(2)}
              /\ \A q \in Runs \ {r} :
                    Len(hist[q]) >= 1 =>
                        {hist[r][1], hist[q][1]} = {StreamPair(0), StreamPair(2)}
        /\ Len(hist[r]) >= 2 =>
              AtLoopHead(r) = SoloStep(hist[r][Len(hist[r]) - 1], xs[r], ys[r])
        /\ pc[r] \in {"loop", "done"} => <<beta_0[r], beta_1[r]>> = AtLoopHead(r)
        /\ pc[r] \in {"upd0", "upd1"} =>
              /\ d_beta_0[r] = ArrNeg(ArrSub(ys[r], ScalarAffine(AtLoopHead(r)[1],
                                                                 AtLoopHead(r)[2], xs[r])))
              /\ beta_1[r] = AtLoopHead(r)[2]
              /\ pc[r] = "upd0" => beta_0[r] = AtLoopHead(r)[1]
              /\ pc[r] = "upd1" => beta_0[r] = SoloStep(AtLoopHead(r), xs[r], ys[r])[1]

\* C14 witness: both invocations are in the middle of an iteration at the
\* same time, the second one drew first and the two drew different initial
\* coefficients
C14_Witness ==
    /\ pc[1] = "upd1" /\ pc[2] = "upd0"
    /\ it[1] = 1 /\ it[2] = 2
    /\ hist[2][1] = StreamPair(0)
    /\ hist[1][1] = StreamPair(2)
    /\ hist[1][1] # hist[2][1]
    /\ IsFinite(beta_0[1]) /\ IsFinite(beta_0[2])
    /\ hist[2][2] # hist[2][1]

\* C15: the observation set the notebook cell hands to the trainer has
\* n_obs inputs and n_obs targets, and every target is exactly
\* true_beta_0 + true_beta_1 * xs_i: no noise term.
C15_NoiselessObservations ==
    \A r \in CallerRuns :
        /\ Len(xs[r]) = n_obs[r]
        /\ Len(ys[r]) = n_obs[r]
        /\ \A i \in 1..n_obs[r] :
              ys[r][i] = FAdd(FromInt(true_beta[r][1]),
                              FMul(FromInt(true_beta[r][2]), xs[r][i]))

\* C15 witness: the trainer has been handed, and has trained to the end on,
\* the two observations (1, 5) and (2, 8) of the line 2 + 3 * x
C15_Witness ==
    \E r \in CallerRuns :
        /\ pc[r] = "done"
        /\ true_beta[r] = <<2, 3>>
        /\ n_obs[r] = 2
        /\ xs[r] = IntArr(<<1, 2>>)
        /\ ys[r] = IntArr(<<5, 8>>)

\* C16: every caller passes at least as many observations as coefficients:
\* the simple regression cell draws n_obs in 2..9 for its 2 coefficients, a
\* multiple regression cell draws n_obs in 4..9 for its 4 coefficients, and
\* every true coefficient is in 2..9; the generated data has n_obs rows.
C16_EnoughObservations ==
    /\ \A r \in CallerRuns :
          /\ n_obs[r] \in 2..9
          /\ n_obs[r] >= Len(true_beta[r])
          /\ Len(true_beta[r]) = 2
          /\ \A j \in 1..2 : true_beta[r][j] \in 2..9
          /\ Len(xs[r]) = n_obs[r]
    /\ m_pc # "idle" =>
          /\ m_n_obs \in 4..9
          /\ m_n_obs >= Len(m_true)
          /\ Len(m_true) = 4
          /\ \A j \in 1..4 : m_true[j] \in 2..9
          /\ Len(m_x) = m_n_obs /\ Len(m_y) = m_n_obs
          /\ Len(m_betas) = Len(m_true)

\* C16 witness: a multiple regression cell has trained four coefficients to
\* the end on five observations
C16_Witness ==
    /\ m_pc = "done"
    /\ m_n_obs = 5
    /\ Len(m_x) = 5
    /\ m_step = NumEpochs
    /\ \E j \in 1..4 : m_betas[j] # FromInt(m_true[j])

\* position of the random stream at which run r draws its coefficients: the
\* cell draws three values and the generator one per observation before it
DrawPos(r) == start[r] + (IF r \in CallerRuns THEN 3 + n_obs[r] ELSE 0)

\* the state part of C17, about run r
DrawnOnceState(r) ==
    /\ pc[r] \in {"idle", "init"} =>
          /\ hist[r] = <<>>
          /\ beta_0[r] = Unset /\ beta_1[r] = Unset
          /\ it[r] = 0
    /\ Len(hist[r]) >= 1 =>
          /\ hist[r][1] = StreamPair(DrawPos(r))
          /\ \A j \in 1..2 : tape[DrawPos(r) + j] \in InitLo..(InitHi - 1)
          /\ LastRun(r) => (rng = DrawPos(r) + 2 /\ Len(tape) = rng)
          /\ Len(hist[r]) = nupd[r][2] + 1

\* the step part of C17, about run r: the statements of an iteration leave
\* the random stream alone, and they change a coefficient only where it is
\* updated (beta_0 at "upd0", beta_1 at "upd1")
DrawnOnceStep(r) ==
    /\ pc[r] \in {"loop", "upd0", "upd1"} => (rng' = rng /\ tape' = tape)
    /\ pc[r] \in {"loop", "upd1"} => beta_0'[r] = beta_0[r]
    /\ pc[r] \in {"loop", "upd0"} => beta_1'[r] = beta_1[r]

\* C17: the trainer draws its coefficients exactly once, before the first
\* iteration, as two integers of 1..9: a run holds no coefficient before the
\* draw; its initial coefficients are the two values of the random stream at
\* the position the run had reached when the trainer was entered; the run
\* draws nothing after them; and no iteration draws again or resets a
\* coefficient: an iteration changes the coefficients only by its two
\* update statements.
C17_DrawnOnce ==
    /\ [](\A r \in Runs : DrawnOnceState(r))
    /\ [][\A r \in Runs : DrawnOnceStep(r)]_vars

\* C17 witness: two runs have ended, one drew (2, 3) and the other (3, 2),
\* and the first iteration changed the coefficients of both
C17_Witness ==
    \E r, q \in Runs :
        /\ pc[r] = "done" /\ pc[q] = "done"
        /\ hist[r][1] = <<FromInt(2), FromInt(3)>>
        /\ hist[q][1] = <<FromInt(3), FromInt(2)>>
        /\ hist[r][2] # hist[r][1]
        /\ hist[q][2] # hist[q][1]
        /\ IsFinite(beta_0[r]) /\ IsFinite(beta_0[q])

\* the last n lines printed
LastLines(n) == SubSeq(stdout, Len(stdout) - n + 1, Len(stdout))

ActualLines(r) ==
    << <<"Actual beta_0", FromInt(true_beta[r][1])>>,
       <<"Actual beta_1", FromInt(true_beta[r][2])>> >>

InitialLines(r) ==
    << <<"Initial gradient descent beta_0", hist[r][1][1]>>,
       <<"Initial gradient descent beta_1", hist[r][1][2]>> >>

FinalLines(r) ==
    << <<"Final gradient descent beta_0", hist[r][NumIterations + 1][1]>>,
       <<"Final gradient descent beta_1", hist[r][NumIterations + 1][2]>> >>

\* the state part of C18, about the latest run r of the notebook cell
ReportOrderState(r) ==
    /\ pc[r] = "init" =>
          /\ LastLines(2) = ActualLines(r)
          /\ nupd[r] = <<0, 0>>
    /\ pc[r] \in {"loop", "upd0", "upd1"} =>
          LastLines(4) = ActualLines(r) \o InitialLines(r)
    /\ pc[r] = "done" =>
          /\ LastLines(6) = ActualLines(r) \o InitialLines(r) \o FinalLines(r)
          /\ nupd[r] = <<NumIterations, NumIterations>>

\* the step part of C18: a step that prints makes no update, and the run
\* that takes it has made either none of its update steps or all of them
ReportOrderStep ==
    stdout' # stdout =>
        \A r \in Runs :
            /\ nupd'[r] = nupd[r]
            /\ pc'[r] # pc[r] =>
                  nupd[r] \in {<<0, 0>>, <<NumIterations, NumIterations>>}

\* C18: a run of the notebook cell reports in this order: the true
\* coefficients, the initial estimates (before any update step), then all the
\* update steps with nothing printed, then the final estimates (after the last
\* update step); no estimate is reported between two update steps.
C18_ReportOrder ==
    /\ [](\A r \in CallerRuns : LastRun(r) => ReportOrderState(r))
    /\ [][ReportOrderStep]_vars

\* C18 witness: a run of the cell has printed its six lines, and its final
\* estimates differ from its initial ones
C18_Witness ==
    \E r \in CallerRuns :
        /\ LastRun(r)
        /\ pc[r] = "done"
        /\ Len(stdout) >= 6
        /\ LastLines(2) = FinalLines(r)
        /\ hist[r][NumIterations + 1][1] # hist[r][1][1]
        /\ hist[r][NumIterations + 1][2] # hist[r][1][2]

\* k successive update steps from coefficients b over observations (x, y)
RECURSIVE Steps(_, _, _, _)
Steps(b, x, y, k) == IF k = 0 THEN b ELSE RuleStep(Steps(b, x, y, k - 1), x, y)

\* C19: each call of the function returned by get_theano_graph applies
\* exactly one update step to the shared coefficients: after k calls the
\* shared coefficients are the result of k successive update steps (old
\* coefficient minus learning_rate times the mean gradient, both gradients
\* taken at the old pair) from the initial values.
C19_OneStepPerCall ==
    th_pc \in {"loop", "done"} =>
        /\ Len(th_hist) = th_calls + 1
        /\ th_beta = th_hist[th_calls + 1]
        /\ th_calls >= 1 =>
              th_hist[th_calls + 1] = RuleStep(th_hist[th_calls], th_xs, th_ys)
        /\ th_beta = Steps(th_hist[1], th_xs, th_ys, th_calls)

\* C19 witness: the function has been called the full number of times on two
\* different features and every call changed both shared coefficients
C19_Witness ==
    /\ th_pc = "done"
    /\ th_calls = NumIterations
    /\ th_xs = IntArr(<<1, 2>>)
    /\ \A k \in 1..NumIterations :
          /\ th_hist[k + 1][1] # th_hist[k][1]
          /\ th_hist[k + 1][2] # th_hist[k][2]

\* the state part of C20: what the reading run returned is the pair of
\* initial values, and until an update operation has run the variables hold
\* their initial values
FetchState ==
    /\ tf_fetched # Unset => tf_fetched = tf_initial
    /\ (tf_var # Unset /\ tf_step = 0 /\ tf_pc \in {"fetch", "loop", "assign"}) =>
          tf_var = tf_initial
    /\ tf_pc \in {"idle", "graph", "data", "init"} => tf_var = Unset

\* the step part of C20: the run that reads the coefficients returns their
\* current values and leaves them unchanged, and a step that changes a
\* coefficient is the initialization or one of the two update operations
FetchStep ==
    /\ tf_fetched' # tf_fetched => (tf_var' = tf_var /\ tf_fetched' = tf_var)
    /\ tf_pc = "fetch" => tf_var' = tf_var
    /\ tf_var' # tf_var =>
          \/ tf_pc = "init" /\ tf_var = Unset
          \/ tf_pc \in {"assign", "assigned0", "assigned1"}

\* C20: in the tensorflow variant a run of the session that only reads the
\* coefficients, Session.run([beta_0, beta_1]), leaves them unchanged and,
\* done after the initialization and before any update, returns the initial
\* values; only running the update operations changes the coefficients.
C20_ReadLeavesCoefficients ==
    /\ []FetchState
    /\ [][FetchStep]_vars

\* C20 witness: the initial values have been read, and the update operations
\* have since been run the full number of times and have changed both
\* coefficients
C20_Witness ==
    /\ tf_pc = "done"
    /\ tf_fetched = tf_initial
    /\ tf_step = NumIterations
    /\ tf_var[1] # tf_initial[1]
    /\ tf_var[2] # tf_initial[2]
    /\ tf_names = tf_var

\* the coefficients one run of the two update operations must leave when
\* both read the pair b: each coefficient less learning_rate times the
\* gradient tensorflow computes for it (the sum over the observations)
FromHeld(b) ==
    LET yh == ScalarAffine(b[1], b[2], tf_x)
        e  == ArrSub(tf_y, yh)
    IN  << FSub(b[1], FMul(learning_rate, ArrSum(ArrNeg(e)))),
           FSub(b[2], FMul(learning_rate, ArrSum(ArrMul(ArrNeg(e), tf_x)))) >>

\* the coefficients held before the run of the update operations in progress
\* (or before the next one): those the last completed run left
HeldBefore == tf_hist[Len(tf_hist)]

\* C21: in the tensorflow graph, in whatever order beta_0_update and
\* beta_1_update execute within one Session.run, both new values are
\* computed from the coefficients held before that run: a coefficient that
\* has been assigned holds the value computed from the pair held before, and
\* one not yet assigned still holds its value from before.
C21_UpdatesFromHeldValues ==
    /\ tf_pc \in {"assign", "assigned0", "assigned1"} =>
          /\ tf_var[1] = (IF tf_pc = "assigned0" THEN FromHeld(HeldBefore)[1]
                          ELSE HeldBefore[1])
          /\ tf_var[2] = (IF tf_pc = "assigned1" THEN FromHeld(HeldBefore)[2]
                          ELSE HeldBefore[2])
    /\ tf_pc = "assigned" => tf_var = FromHeld(HeldBefore)
    /\ (tf_pc \in {"loop", "done"} /\ tf_step > 0) =>
          tf_var = FromHeld(tf_hist[Len(tf_hist) - 1])

\* C21 witness: in the second run of the update operations beta_0_update
\* has executed and changed beta_0 while beta_1_update has not executed yet,
\* and the value it is about to write differs from the one beta_1 holds
C21_Witness ==
    /\ tf_pc = "assigned0"
    /\ tf_step = 1
    /\ tf_var[1] # HeldBefore[1]
    /\ tf_var[2] = HeldBefore[2]
    /\ tf_new[2] # tf_var[2]

\* one iteration of learn_w_gradient_descent from the coefficients b on the
\* observations x, y: each coefficient less learning_rate times the mean of
\* the per-observation gradients
MeanStep(b, x, y) ==
    LET yh == ScalarAffine(b[1], b[2], x)
        e  == ArrSub(y, yh)
    IN  << FSub(b[1], FMul(learning_rate, ArrMean(ArrNeg(e)))),
           FSub(b[2], FMul(learning_rate, ArrMean(ArrMul(ArrNeg(e), x)))) >>

\* C22: for the same coefficients and observations, one run of the
\* tensorflow update operations changes each coefficient by learning_rate
\* times the mean over the observations of the per-observation gradient,
\* the same amount as one iteration of the numpy trainer.
C22_TfStepIsMeanStep ==
    (tf_pc \in {"loop", "done"} /\ tf_step > 0) =>
        tf_var = MeanStep(tf_hist[Len(tf_hist) - 1], tf_x, tf_y)

\* a call of train: the step that counts one more call
TrainCalled == th_calls' = th_calls + 1

\* C23: for the same coefficients and observations, one call of the theano
\* train function leaves the coefficients at the values one iteration of
\* the numpy trainer leaves: every call takes the shared coefficients b to
\* MeanStep(b, xs, ys).
C23_TheanoStepIsNumpyStep ==
    [][TrainCalled => th_beta' = MeanStep(th_beta, th_xs, th_ys)]_vars

\* C23 witness: train has been called once on observations with different
\* features and has changed both coefficients
C23_Witness ==
    /\ th_calls = 1
    /\ \E i, j \in 1..Len(th_xs) : th_xs[i] # th_xs[j]
    /\ th_beta[1] # th_hist[1][1]
    /\ th_beta[2] # th_hist[1][2]
    /\ th_beta = MeanStep(th_hist[1], th_xs, th_ys)

\* what the numpy trainer's actions leave after each completed iteration is
\* MeanStep of what they held before it
NumpyIterationIsMeanStep ==
    \A r \in Runs :
        \A k \in 1..(Len(hist[r]) - 1) :
            (Len(xs[r]) = Len(ys[r])) =>
                hist[r][k + 1] = MeanStep(hist[r][k], xs[r], ys[r])

\* C24: for the same coefficients and observations, fewer than one batch,
\* one epoch of the keras model built by get_keras_model changes the
\* coefficients by the same amount as one iteration of the prior
\* implementations.
C24_KerasEpochIsMeanStep ==
    [][k_epoch' = k_epoch + 1 => k_weights' = MeanStep(k_weights, k_xs, k_ys)]_vars

\* a function that has not been called holds the values it was created with
UncalledKeepsInitial ==
    \A g \in Graphs : (g_beta[g] # Unset /\ g_calls[g] = 0) => g_beta[g] = g_init[g]

\* a step that is not a call of function g leaves g's coefficients alone
OthersCallsLeaveAlone ==
    \A g \in Graphs :
        (g_beta[g] # Unset /\ g_calls'[g] = g_calls[g]) => g_beta'[g] = g_beta[g]

\* C25: two train functions obtained from two calls of get_theano_graph
\* hold independent coefficient state: calling one of them any number of
\* times never changes the coefficients of the other.
C25_GraphsIndependent ==
    /\ []UncalledKeepsInitial
    /\ [][OthersCallsLeaveAlone]_vars

\* C25 witness: both functions exist, the first has been called the full
\* number of times and has moved its coefficients, the second has not been
\* called and holds its initial values, which differ from the first's
C25_Witness ==
    /\ g_beta[1] # Unset /\ g_beta[2] # Unset
    /\ g_calls[1] = NumIterations /\ g_calls[2] = 0
    /\ g_beta[1] # g_init[1]
    /\ g_beta[2] = g_init[2]
    /\ g_init[1] # g_init[2]

\* the predictions of the latest call of train: those of the coefficients
\* held when the call started
CallPredictions == ScalarAffine(th_hist[th_calls][1], th_hist[th_calls][2], th_xs)

\* C26: in the theano caller, after each call of the train function the
\* caller's variable yhats holds the predictions of that call and the
\* caller's variable errors holds the residuals of that call.
C26_OutputsNamedAsComputed ==
    (th_pc \in {"loop", "done"} /\ th_calls >= 1) =>
        /\ th_out.yhats = CallPredictions
        /\ th_out.errors = ArrSub(th_ys, CallPredictions)

\* the true coefficients of a run started by the notebook cell
TruePair(r) == <<FromInt(true_beta[r][1]), FromInt(true_beta[r][2])>>

\* run r, on the cell's noiseless data, held the true coefficients when its
\* current iteration started
StartedAtTrue(r) ==
    /\ r \in CallerRuns
    /\ Len(hist[r]) >= 1
    /\ AtLoopHead(r) = TruePair(r)

\* in such an iteration both coefficients stay the true ones, and once the
\* residuals have been computed every one of them is zero
FixedPointState(r) ==
    StartedAtTrue(r) =>
        /\ <<beta_0[r], beta_1[r]>> = TruePair(r)
        /\ pc[r] \in {"upd0", "upd1"} =>
              \A i \in 1..Len(es[r]) : es[r][i] = FromInt(0)

\* and the next iteration starts at the true coefficients again
FixedPointStep(r) ==
    StartedAtTrue(r) => hist'[r][Len(hist'[r])] = TruePair(r)

\* C27: on noiseless data the true coefficients are a fixed point of the
\* manual trainer's update step: if at the start of an iteration the
\* coefficients equal the true coefficients, every residual is zero and the
\* coefficients are unchanged by that iteration and by every later one.
C27_TrueCoefficientsFixed ==
    /\ [](\A r \in Runs : FixedPointState(r))
    /\ [][\A r \in Runs : FixedPointStep(r)]_vars

\* C27 witness: a run over two different features drew the true coefficients
\* as its initial ones, made all its iterations and ended with them
C27_Witness ==
    \E r \in CallerRuns :
        /\ pc[r] = "done"
        /\ hist[r][1] = TruePair(r)
        /\ nupd[r] = <<NumIterations, NumIterations>>
        /\ DistinctFeatures(r)
        /\ <<beta_0[r], beta_1[r]>> = TruePair(r)

\* run r has drawn its initial coefficients and every feature value it was
\* given is zero
ZeroFeatures(r) ==
    /\ Len(hist[r]) >= 1
    /\ \A i \in 1..Len(xs[r]) : xs[r][i] = FromInt(0)

FiniteSoFar(r) == \A k \in 1..(Len(hist[r]) - 1) : IsFinite(hist[r][k][1])

\* the beta_0 one iteration leaves when every feature is zero: the
\* predictions are beta_0 itself, whatever beta_1 is
Beta0FromResiduals(b, y) ==
    FSub(b[1], FMul(learning_rate, ArrMean(ArrNeg(ArrSub(y, [i \in 1..Len(y) |-> b[1]])))))

=============================================================================
